---------------------------- MODULE Spec2Model ----------------------------
(***************************************************************************)
(* homebridge-ttlock-homekey: the cloud client (TTLockApi), the per-device *)
(* coordinator (TTLockHomeKitDevice) and the discovery sweep of the        *)
(* platform (TTLockHomeKeyPlatform) as state machines.                     *)
(*                                                                         *)
(* The repository holds two cloud clients.  src/src/api/ttlockApi.ts sends *)
(* every gated call directly ("direct"); src/unnamed/part_003 funnels the  *)
(* calls through requestQueue / processQueue ("queued").  The variable     *)
(* impl selects the client; it is chosen in Init and never changes.        *)
(*                                                                         *)
(* JavaScript runs one callback to completion, so an action is the code    *)
(* between two suspension points (an HTTP call, a timer, a mutex wait).    *)
(***************************************************************************)
EXTENDS Integers, Sequences, FiniteSets, TLC

(***************************************************************************)
(* Bounds of the model and constants of the program.                       *)
(***************************************************************************)
NumReq == 2
NumOps == 3
MaxWrites == 1
MaxSweeps == 1
RegOps == 3
RegSweeps == 3
PollOps == 3
PollSweeps == 2
HkOps == 2
HkWrites == 1
DebounceOps == 2
DebounceWrites == 2
FairOps == 2
CodecOps == 3
MaxCodes == 11
MaxCmds == 2
MaxFaults == 4
maxRetries == 3
debounceMs == 500
holdMs == 5000

Req == 1 .. NumReq
Impl == {"direct", "queued"}

\* What one HTTP attempt of a gated call can come back with:
\*   ok       2xx, errcode absent or 0
\*   appbusy  2xx, errcode # 0, errmsg is the gateway-busy message
\*   apperr   2xx, errcode # 0, any other errmsg
\*   h401     HTTP 401
\*   hbusy    non-2xx other than 401 whose body carries the gateway-busy errmsg
\*   herr     any other non-2xx
\*   net      no response at all (transport error, timeout)
HttpResp == {"ok", "appbusy", "apperr", "h401", "hbusy", "herr", "net"}

\* What oauth2/token can come back with.
TokenResp == {"both", "noAccess", "noRefresh", "net"}

VARIABLES
  impl,              \* which cloud client is linked
  authTried,         \* createAndAuthenticateApi has run
  authReturn,        \* how authenticate ended: the answer it got, raised
  accessToken,       \* TTLockApi.accessToken, 0 = null/undefined
  refreshToken,      \* TTLockApi.refreshToken, 0 = null/undefined
  issued,            \* token pairs the server has issued so far
  faults,            \* answers other than success the cloud has given so far
  tokenMutex,        \* request holding tokenMutex, 0 = free
  mutexWaiters,      \* requests queued in tokenMutex.acquire(), FIFO
  requestQueue,      \* TTLockApi.requestQueue (queued client)
  isProcessingQueue, \* TTLockApi.isProcessingQueue (queued client)
  pc,                \* where each gated call is
  attempt,           \* the loop variable of each gated call
  outcome,           \* the caller's promise: "pending", "resolved" or the error
  bearer,            \* Authorization header of the latest HTTP attempt
  paramToken,        \* requestData.accessToken of the call
  delays,            \* history: the backoff delays taken, in seconds
  n401,              \* history: 401 responses received by the call
  lastResp,          \* history: the answer to the call's latest HTTP attempt
  burst,             \* history: refresh calls since tokenMutex was last free
  refreshCalls,      \* history: refresh HTTP calls made in total
  enqOrder,          \* history: order in which calls were pushed on the queue
  startOrder         \* history: order in which the worker took them

apiVars == <<impl, authTried, authReturn, accessToken, refreshToken, issued,
             faults,
             tokenMutex,
             mutexWaiters, requestQueue, isProcessingQueue, pc, attempt,
             outcome, bearer, paramToken, delays, n401, lastResp, burst,
             refreshCalls, enqOrder, startOrder>>

VARIABLES
  lock,                      \* TTLockHomeKitDevice.lock: state, battery, offline
  previousLock,              \* TTLockHomeKitDevice.previousLock, NoLock = undefined
  reported,                  \* characteristic values last pushed to HomeKit
  isUpdating,                \* TTLockHomeKitDevice.isUpdating
  lockBusy,                  \* TTLockHomeKitDevice.lockBusy
  pollingInterval,           \* TTLockHomeKitDevice.pollingInterval is set
  debounceTimeout,           \* TTLockHomeKitDevice.debounceTimeout, 0 = null
  timers,                    \* the debounce timers that are armed
  sinceChange,               \* ms since lastStateChangeTime, saturated
  op,                        \* the operations of the device, by number
  nOps,                      \* operations created so far
  waiters,                   \* operations inside waitForPendingUpdates, in order
  ready,                     \* released waiters whose continuation is queued
  isShuttingDown,            \* TTLockHomeKeyPlatform.isShuttingDown
  shutdownWaits,             \* the tasks the shutdown handler awaits
  periodicDeviceDiscovering, \* TTLockHomeKeyPlatform.periodicDeviceDiscovering
  ongoingTasks,              \* TTLockHomeKeyPlatform.ongoingTasks
  configured,                \* the accessory is in configuredAccessories
  contextOffline,            \* platformAccessory.context.offline
  writes,                    \* history: the values of the user writes received
  sinceWrite,                \* history: ms since the last user write (saturating)
  sweeps,                    \* discovery sweeps started so far
  exists,                    \* the device is in homekitDevicesById
  lastSweep,                 \* history: how the latest finished sweep went
  lastReturn,                \* history: what the latest HomeKit request returned
  budget                     \* the events a run may hold: ops, writes, sweeps

VARIABLES
  cloudCodes,                \* the keyboard passwords the cloud holds, in list order
  nextId,                    \* the keyboardPwdId the cloud gives out next
  passCodes,                 \* TTLockHomeKitDevice.lock.passCodes
  lastCmd,                   \* history: the latest access-code command
  prevCmd,                   \* history: the access-code command before it
  calls,                     \* history: the cloud calls that command made
  reply,                     \* history: the response it returned
  nCmds                      \* access-code commands handled so far

passVars == <<cloudCodes, nextId, passCodes, lastCmd, prevCmd, calls, reply,
              nCmds>>

VARIABLE
  registry                   \* the platform's accessory maps during startup

\* The variables no access-code command writes.
restVars == <<previousLock, reported, isUpdating, lockBusy,
              debounceTimeout, timers, sinceChange, op, nOps,
              waiters, ready, isShuttingDown, shutdownWaits,
              periodicDeviceDiscovering, ongoingTasks, configured,
              contextOffline, writes, sinceWrite, sweeps, exists, lastSweep,
              lastReturn, budget, registry>>

devVars == <<lock, pollingInterval, restVars, passVars>>

vars == <<apiVars, devVars>>

InSeq(x, s) == \E i \in 1 .. Len(s) : s[i] = x

IsPrefix(s, t) == Len(s) <= Len(t) /\ SubSeq(t, 1, Len(s)) = s


(***************************************************************************)
(* TTLockApi: pure parts.                                                  *)
(***************************************************************************)

\* A backoff that grows by one second per attempt.
BackoffSecondsLinear(a) == a + 1

\* Math.pow(2, attempt) * 1000 ms, in seconds.
BackoffSeconds(a) == 2 ^ a

\* How makeAuthenticatedRequest classifies the answer of one HTTP attempt.
\*   direct: every 2xx with a non-zero errcode throws RequestFailed inside the
\*           try and is retried with backoff; a non-2xx other than 401 is
\*           rethrown as RequestFailed; anything else is rethrown as it is.
\*   queued: only a non-2xx whose body carries the gateway-busy errmsg is
\*           retried with backoff; a 2xx with a non-zero errcode throws
\*           RequestFailed inside the try, which the catch rejects at once.
Classify(i, resp) ==
  IF resp = "ok" THEN "return"
  ELSE IF resp = "h401" THEN "refresh"
  ELSE IF i = "direct"
       THEN (IF resp \in {"appbusy", "apperr"} THEN "backoff" ELSE "fail")
       ELSE (IF resp = "hbusy" THEN "backoff" ELSE "fail")

\* The error the caller gets when an attempt fails without (further) retry.
FailureOf(resp) == IF resp = "net" THEN "Error" ELSE "RequestFailed"

\* The busy signal as each client recognises it.
IsBusy(i, resp) == IF i = "direct" THEN resp = "appbusy" ELSE resp = "hbusy"

\* processQueue after a request closure has settled (or on a first enqueue
\* while idle): the while loop shifts the next closure and awaits it inside
\* try/catch.  A closure that finds no access token throws at once; the
\* catch logs it and the loop goes on.  threw = the closure just awaited
\* threw.  Result: the queue left, the flag, the request now running (0 =
\* none) and the requests whose closures threw on the way.
processQueueNoCatch(q, tok, threw) ==
  IF threw THEN [queue |-> q, processing |-> TRUE, run |-> 0, thrown |-> << >>]
  ELSE IF q = << >>
  THEN [queue |-> << >>, processing |-> FALSE, run |-> 0, thrown |-> << >>]
  ELSE IF tok = 0
  THEN [queue |-> Tail(q), processing |-> TRUE, run |-> 0, thrown |-> <<Head(q)>>]
  ELSE [queue |-> Tail(q), processing |-> TRUE, run |-> Head(q), thrown |-> << >>]

\* (processQueueNoCatch above: the same loop without the try/catch, which a
\* throwing closure leaves with the flag set.)
processQueue(q, tok, threw) ==
  IF q = << >>
  THEN [queue |-> << >>, processing |-> FALSE, run |-> 0, thrown |-> << >>]
  ELSE IF tok = 0
  THEN [queue |-> << >>, processing |-> FALSE, run |-> 0, thrown |-> q]
  ELSE [queue |-> Tail(q), processing |-> TRUE, run |-> Head(q), thrown |-> << >>]

(***************************************************************************)
(* TTLockApi: state changes shared by the actions.                         *)
(***************************************************************************)

\* The worker's step w applied on top of pcs/outs; the request it starts
\* sends its first HTTP attempt with the token tok.
ApplyWorker(w, pcs, outs, tok) ==
  /\ pc' = [x \in Req |-> IF x = w.run THEN "http"
                          ELSE IF InSeq(x, w.thrown) THEN "thrown"
                          ELSE pcs[x]]
  /\ outcome' = outs
  /\ requestQueue' = w.queue
  /\ isProcessingQueue' = w.processing
  /\ bearer' = [x \in Req |-> IF x = w.run THEN tok ELSE bearer[x]]
  /\ paramToken' = [x \in Req |-> IF x = w.run THEN tok ELSE paramToken[x]]
  /\ startOrder' = startOrder \o (IF w.run # 0 THEN <<w.run>> ELSE w.thrown)

\* Request r ends: out is what its caller gets; "pending" = the closure
\* threw inside the queue, so neither resolve nor reject was called.
Finish(r, out, pcs, tok) ==
  LET pcs1 == [pcs EXCEPT ![r] = IF out = "pending" THEN "thrown" ELSE "done"]
      outs1 == [outcome EXCEPT ![r] = out]
  IN IF impl = "direct"
     THEN /\ pc' = pcs1
          /\ outcome' = outs1
          /\ UNCHANGED <<requestQueue, isProcessingQueue, bearer, paramToken,
                         startOrder>>
     ELSE ApplyWorker(processQueue(requestQueue, tok, out = "pending"),
                      pcs1, outs1, tok)

\* Request r sends its next HTTP attempt.
Send(r, pcs, tok) ==
  /\ pc' = [pcs EXCEPT ![r] = "http"]
  /\ bearer' = [bearer EXCEPT ![r] = tok]
  /\ UNCHANGED <<outcome, requestQueue, isProcessingQueue, paramToken,
                 startOrder>>

\* "continue" in the for loop: attempt++ and the loop test; leaving the
\* loop ends the call with 'Max retries reached'.
Continue(r, pcs, tok) ==
  /\ attempt' = [attempt EXCEPT ![r] = @ + 1]
  /\ IF attempt[r] + 1 <= maxRetries
     THEN Send(r, pcs, tok)
     ELSE Finish(r, "MaxRetries", pcs, tok)

(***************************************************************************)
(* TTLockApi: actions.                                                     *)
(***************************************************************************)

InitApi ==
  /\ impl \in Impl
  /\ authTried = FALSE
  /\ authReturn = [resp |-> "none", raised |-> FALSE]
  /\ accessToken = 0
  /\ refreshToken = 0
  /\ issued = 0
  /\ faults = 0
  /\ tokenMutex = 0
  /\ mutexWaiters = << >>
  /\ requestQueue = << >>
  /\ isProcessingQueue = FALSE
  /\ pc = [r \in Req |-> "idle"]
  /\ attempt = [r \in Req |-> 0]
  /\ outcome = [r \in Req |-> "pending"]
  /\ bearer = [r \in Req |-> 0]
  /\ paramToken = [r \in Req |-> 0]
  /\ delays = [r \in Req |-> << >>]
  /\ n401 = [r \in Req |-> 0]
  /\ lastResp = [r \in Req |-> "none"]
  /\ burst = 0
  /\ refreshCalls = 0
  /\ enqOrder = << >>
  /\ startOrder = << >>

\* authenticate, as createAndAuthenticateApi runs it once at startup: the
\* tokens are stored only when the answer holds both; any other answer, and
\* a failed transport, ends in the catch, which rethrows.
Authenticate(resp) ==
  /\ UNCHANGED devVars
  /\ ~authTried
  /\ authTried' = TRUE
  /\ authReturn' = [resp |-> resp, raised |-> resp # "both"]
  /\ IF resp = "both"
     THEN /\ accessToken' = issued + 1
          /\ refreshToken' = issued + 1
          /\ issued' = issued + 1
     ELSE UNCHANGED <<accessToken, refreshToken, issued>>
  /\ UNCHANGED <<impl, faults, tokenMutex, mutexWaiters, requestQueue,
                 isProcessingQueue, pc, attempt, outcome, bearer, paramToken,
                 delays, n401, lastResp, burst, refreshCalls, enqOrder,
                 startOrder>>

\* makeAuthenticatedRequest of the direct client, up to its first await:
\* without a token it throws, otherwise the first HTTP attempt is sent.
CallDirect(r) ==
  /\ UNCHANGED devVars
  /\ impl = "direct"
  /\ authTried
  /\ pc[r] = "idle"
  /\ IF accessToken = 0
     THEN /\ pc' = [pc EXCEPT ![r] = "done"]
          /\ outcome' = [outcome EXCEPT ![r] = "NotAuthenticated"]
          /\ UNCHANGED <<bearer, paramToken>>
     ELSE /\ pc' = [pc EXCEPT ![r] = "http"]
          /\ bearer' = [bearer EXCEPT ![r] = accessToken]
          /\ paramToken' = [paramToken EXCEPT ![r] = accessToken]
          /\ UNCHANGED outcome
  /\ UNCHANGED <<impl, authTried, authReturn, accessToken, refreshToken,
                 issued, faults,
                 tokenMutex, mutexWaiters, requestQueue, isProcessingQueue,
                 attempt, delays, n401, lastResp, burst, refreshCalls,
                 enqOrder, startOrder>>

\* makeAuthenticatedRequest of the queued client: enqueueRequest pushes the
\* closure and calls processQueue, which returns at once when a worker is
\* running and otherwise starts draining in the same turn.
Enqueue(r) ==
  /\ UNCHANGED devVars
  /\ impl = "queued"
  /\ authTried
  /\ pc[r] = "idle"
  /\ enqOrder' = Append(enqOrder, r)
  /\ IF isProcessingQueue
     THEN /\ requestQueue' = Append(requestQueue, r)
          /\ pc' = [pc EXCEPT ![r] = "queued"]
          /\ UNCHANGED <<isProcessingQueue, outcome, bearer, paramToken,
                         startOrder>>
     ELSE ApplyWorker(processQueue(Append(requestQueue, r), accessToken, FALSE),
                      pc, outcome, accessToken)
  /\ UNCHANGED <<impl, authTried, authReturn, accessToken, refreshToken,
                 issued, faults,
                 tokenMutex, mutexWaiters, attempt, delays, n401, lastResp,
                 burst, refreshCalls>>

\* A refresh that sends its call without taking tokenMutex.
EnterRefreshNoMutex(r) ==
  /\ UNCHANGED devVars
  /\ pc' = [pc EXCEPT ![r] = "refreshing"]
  /\ tokenMutex' = r
  /\ burst' = 1
  /\ refreshCalls' = refreshCalls + 1
  /\ UNCHANGED <<mutexWaiters, outcome, requestQueue, isProcessingQueue,
                 bearer, paramToken, startOrder>>

\* refreshTokenIfNeeded up to its first await, entered from the 401 branch:
\* no refresh token -> throws; otherwise tokenMutex.acquire(), and the
\* holder sends the refresh call.
EnterRefresh(r) ==
  /\ UNCHANGED devVars
  /\ IF refreshToken = 0
     THEN /\ Finish(r, IF impl = "direct" THEN "RefreshFailed" ELSE "pending",
                    pc, accessToken)
          /\ UNCHANGED <<tokenMutex, mutexWaiters, burst, refreshCalls>>
     ELSE /\ IF tokenMutex = 0
             THEN /\ tokenMutex' = r
                  /\ pc' = [pc EXCEPT ![r] = "refreshing"]
                  /\ burst' = 1
                  /\ refreshCalls' = refreshCalls + 1
                  /\ UNCHANGED mutexWaiters
             ELSE /\ mutexWaiters' = Append(mutexWaiters, r)
                  /\ pc' = [pc EXCEPT ![r] = "mutexWait"]
                  /\ UNCHANGED <<tokenMutex, burst, refreshCalls>>
          /\ UNCHANGED <<outcome, requestQueue, isProcessingQueue, bearer,
                         paramToken, startOrder>>

\* The answer to one HTTP attempt of r arrives.
HttpResponse(r, resp) ==
  /\ UNCHANGED devVars
  /\ pc[r] = "http"
  /\ resp # "ok" => faults < MaxFaults
  /\ faults' = IF resp = "ok" THEN faults ELSE faults + 1
  /\ lastResp' = [lastResp EXCEPT ![r] = resp]
  /\ LET kind == Classify(impl, resp) IN
     /\ n401' = [n401 EXCEPT ![r] = IF kind = "refresh" THEN @ + 1 ELSE @]
     /\ CASE kind = "return" ->
               /\ Finish(r, "resolved", pc, accessToken)
               /\ UNCHANGED <<attempt, delays, tokenMutex, mutexWaiters, burst,
                              refreshCalls>>
          [] kind = "fail" ->
               /\ Finish(r, FailureOf(resp), pc, accessToken)
               /\ UNCHANGED <<attempt, delays, tokenMutex, mutexWaiters, burst,
                              refreshCalls>>
          [] kind = "backoff" ->
               /\ IF attempt[r] < maxRetries
                  THEN /\ pc' = [pc EXCEPT ![r] = "backoff"]
                       /\ delays' = [delays EXCEPT
                                       ![r] = Append(@, BackoffSeconds(attempt[r]))]
                       /\ UNCHANGED <<outcome, requestQueue, isProcessingQueue,
                                      bearer, paramToken, startOrder>>
                  ELSE /\ Finish(r, "RequestFailed", pc, accessToken)
                       /\ UNCHANGED delays
               /\ UNCHANGED <<attempt, tokenMutex, mutexWaiters, burst,
                              refreshCalls>>
          [] kind = "refresh" ->
               /\ EnterRefresh(r)
               /\ UNCHANGED <<attempt, delays>>
  /\ UNCHANGED <<impl, authTried, authReturn, accessToken, refreshToken,
                 issued, enqOrder>>

\* The setTimeout of a backoff fires: continue.
BackoffExpire(r) ==
  /\ UNCHANGED devVars
  /\ pc[r] = "backoff"
  /\ Continue(r, pc, accessToken)
  /\ UNCHANGED <<impl, authTried, authReturn, accessToken, refreshToken,
                 issued, faults,
                 tokenMutex, mutexWaiters, delays, n401, lastResp, burst,
                 refreshCalls, enqOrder>>

\* What the refresh answer stores.  direct: both tokens or nothing (it
\* throws when one is missing).  queued: whatever the body holds, a missing
\* token stored as undefined.
StoresTokens(i, resp) ==
  IF i = "direct" THEN resp = "both" ELSE resp # "net"

\* The answer to r's refresh call arrives; the finally releases tokenMutex,
\* which hands it to the next waiter, who sends its own refresh call.
RefreshResponse(r, resp) ==
  /\ UNCHANGED devVars
  /\ pc[r] = "refreshing"
  /\ resp # "both" => faults < MaxFaults
  /\ faults' = IF resp = "both" THEN faults ELSE faults + 1
  /\ LET stores == StoresTokens(impl, resp)
         newAccess == IF ~stores THEN accessToken
                      ELSE IF resp = "noAccess" THEN 0 ELSE issued + 1
         newRefresh == IF ~stores THEN refreshToken
                       ELSE IF resp = "noRefresh" THEN 0 ELSE issued + 1
         next == IF mutexWaiters = << >> THEN 0 ELSE Head(mutexWaiters)
         pcs == [x \in Req |-> IF x = next THEN "refreshing" ELSE pc[x]]
     IN
     /\ accessToken' = newAccess
     /\ refreshToken' = newRefresh
     /\ issued' = IF stores THEN issued + 1 ELSE issued
     /\ tokenMutex' = next
     /\ mutexWaiters' = IF next = 0 THEN << >> ELSE Tail(mutexWaiters)
     /\ burst' = IF next = 0 THEN burst ELSE burst + 1
     /\ refreshCalls' = IF next = 0 THEN refreshCalls ELSE refreshCalls + 1
     /\ IF stores
        THEN Continue(r, pcs, newAccess)
        ELSE /\ Finish(r, IF impl = "direct" THEN "RefreshFailed" ELSE "pending",
                       pcs, newAccess)
             /\ UNCHANGED attempt
  /\ UNCHANGED <<impl, authTried, authReturn, delays, n401, lastResp, enqOrder>>

NextApi ==
  \/ \E resp \in TokenResp : Authenticate(resp)
  \/ \E r \in Req : CallDirect(r)
  \/ \E r \in Req : Enqueue(r)
  \/ \E r \in Req, resp \in HttpResp : HttpResponse(r, resp)
  \/ \E r \in Req : BackoffExpire(r)
  \/ \E r \in Req, resp \in TokenResp : RefreshResponse(r, resp)


(***************************************************************************)
(* TTLockHomeKitDevice and the parts of TTLockHomeKeyPlatform it reads.    *)
(* One device is modelled; its cloud calls are the suspension points, and  *)
(* each comes back with success or with a fault.                           *)
(*                                                                         *)
(* The handlers are written as operators on a record of the device state   *)
(* (Cur), so that a handler can call another the way the code does.        *)
(***************************************************************************)

Op == 1 .. NumOps
LockStates == {0, 1}          \* LockTargetState: UNSECURED = 0, SECURED = 1
Batteries == {80}
Commands == {"list", "mutate", "malformed"}
TimeSteps == {debounceMs \div 2, holdMs}

NoLock == [state |-> -1, battery |-> -1, offline |-> FALSE]

\* An access-code request as the handler reads it: whether the TLV parses
\* (and to how many records), the command code of record 0, and record 1:
\* absent, unparseable, without sub-fields, naming a passcode the snapshot
\* holds ("entry") or one it does not hold ("unknown").  Codes: 1 List,
\* 3 Add, 5 Delete, 9 a code the switch does not know.
SubRecords == {"none", "unparseable", "empty", "entry", "unknown"}
NoReq == [tlv |-> "none", code |-> 0, sub |-> "none"]
Requests ==
  {[tlv |-> t, code |-> 0, sub |-> "none"] : t \in {"unparseable", "empty"}}
    \cup [tlv : {"records"}, code : {1, 3, 5, 9}, sub : SubRecords]

\* An access-code command as the handler decodes it: the operation of
\* record 0 and, for each further record, its first two sub-fields.  An
\* identifier sub-field holds a byte that Read and Delete take as the slot
\* index (-1: the sub-record has none); code is the access code of an Add
\* ("": none).
NoCmd == [operation |-> 0, subs |-> << >>]

\* A response: '' ("empty"), or the operation and the sub-records that
\* follow it.
NoReply == [kind |-> "none", operation |-> 0, records |-> << >>]

NoOp == [kind |-> "none", pc |-> "none", value |-> 0, wid |-> 0,
         fetch |-> FALSE, cmd |-> "none", result |-> "none",
         req |-> NoReq, response |-> "none",
         before |-> NoLock, battery |-> -1]

\* The platform before any accessory is restored: its maps are empty.
NoRegistry ==
  [phase |-> "running", cache |-> << >>, restored |-> {},
   configuredAccessories |-> {}, offlineAccessories |-> {},
   homekitDevicesById |-> {}, bridge |-> {}, unregistered |-> {}]

\* No HomeKit request has returned yet.
\* A CharacteristicValue handed back to the accessory framework.
Num(n) == [tag |-> "number", n |-> n, s |-> ""]
Str(x) == [tag |-> "string", n |-> 0, s |-> x]
Void == [tag |-> "void", n |-> 0, s |-> ""]
NoReturn == [by |-> "none", value |-> Void, refused |-> FALSE]

Min(a, b) == IF a < b THEN a ELSE b

Cur ==
  [lock |-> lock, previousLock |-> previousLock, reported |-> reported,
   isUpdating |-> isUpdating, lockBusy |-> lockBusy,
   pollingInterval |-> pollingInterval, debounceTimeout |-> debounceTimeout,
   timers |-> timers, sinceChange |-> sinceChange, op |-> op, nOps |-> nOps,
   waiters |-> waiters, ready |-> ready, isShuttingDown |-> isShuttingDown,
   shutdownWaits |-> shutdownWaits,
   periodicDeviceDiscovering |-> periodicDeviceDiscovering,
   ongoingTasks |-> ongoingTasks, configured |-> configured,
   contextOffline |-> contextOffline, writes |-> writes,
   sinceWrite |-> sinceWrite, sweeps |-> sweeps, exists |-> exists,
   lastSweep |-> lastSweep, lastReturn |-> lastReturn, budget |-> budget]

Apply(t) ==
  /\ lock' = t.lock
  /\ previousLock' = t.previousLock
  /\ reported' = t.reported
  /\ isUpdating' = t.isUpdating
  /\ lockBusy' = t.lockBusy
  /\ pollingInterval' = t.pollingInterval
  /\ debounceTimeout' = t.debounceTimeout
  /\ timers' = t.timers
  /\ sinceChange' = t.sinceChange
  /\ op' = t.op
  /\ nOps' = t.nOps
  /\ waiters' = t.waiters
  /\ ready' = t.ready
  /\ isShuttingDown' = t.isShuttingDown
  /\ shutdownWaits' = t.shutdownWaits
  /\ periodicDeviceDiscovering' = t.periodicDeviceDiscovering
  /\ ongoingTasks' = t.ongoingTasks
  /\ configured' = t.configured
  /\ contextOffline' = t.contextOffline
  /\ writes' = t.writes
  /\ sinceWrite' = t.sinceWrite
  /\ sweeps' = t.sweeps
  /\ exists' = t.exists
  /\ lastSweep' = t.lastSweep
  /\ lastReturn' = t.lastReturn
  /\ budget' = t.budget
  /\ UNCHANGED <<apiVars, passVars, registry>>

\* A signal that no listener hears.
emitUnheard(s) == s

\* updateEmitter.emit('updateComplete' | 'periodicDeviceDiscoveryComplete'):
\* every waiter registered a once-listener for both, so either signal
\* resolves the Promise.race of all of them.  Their continuations are
\* queued as microtasks, in the order they began to wait.
emit(s) == [s EXCEPT !.ready = s.ready \o s.waiters, !.waiters = << >>]

\* A stopPolling that leaves the interval set.
stopPollingLeak(s) == s

\* stopPolling: clearInterval and pollingInterval = undefined.
stopPolling(s) == [s EXCEPT !.pollingInterval = FALSE]

\* startPolling: clears a running interval and sets a new one, unless the
\* device is offline or the platform is shutting down.
startPolling(s) ==
  IF s.lock.offline \/ s.isShuttingDown
  THEN stopPolling(s)
  ELSE [s EXCEPT !.pollingInterval = TRUE]

\* The catch block shared by updateState, the debounced write and the
\* access-code handler.
catch(s) == stopPolling([s EXCEPT !.lock.offline = TRUE])

\* The path the try block of handleAccessCodeControlPointOnSet takes for
\* req.  "malformed": a statement throws before any cloud call
\* (TlvFactory.parse throws, decTlv[0] is undefined for an empty buffer,
\* decTlv[1] is undefined for a Delete without record 1, or the parse of
\* record 1 throws).  "mutate": addPasscode or deletePasscode is called.
\* "list": the response is built without a cloud call (List; an Add whose
\* loop finds no record or no sub-field; a Delete without sub-fields or of
\* a passcode the snapshot lacks; a code without a case).
decode(req) ==
  IF req.tlv # "records" THEN "malformed"
  ELSE CASE req.code = 1 -> "list"
         [] req.code = 3 ->
              CASE req.sub = "unparseable" -> "malformed"
                [] req.sub \in {"none", "empty"} -> "list"
                [] OTHER -> "mutate"
         [] req.code = 5 ->
              CASE req.sub \in {"none", "unparseable"} -> "malformed"
                [] req.sub = "entry" -> "mutate"
                [] OTHER -> "list"
         [] OTHER -> "list"

\* What the try block returns for req when nothing throws: "records" (the
\* operation header and passcode records), "header" (responseTlv is only
\* '010103' or '010105'), or "empty" (response is still '').
respond(req) ==
  CASE req.code = 1 -> "records"
    [] req.code = 3 -> IF req.sub \in {"none", "empty"} THEN "header"
                       ELSE "records"
    [] req.code = 5 -> IF req.sub = "entry" THEN "records" ELSE "header"
    [] OTHER -> "empty"

\* The finally blocks: isUpdating = false and emit('updateComplete'); the
\* access-code handler also clears lockBusy; updateState then drops its
\* task from ongoingTasks.  Of a finished operation the record keeps the
\* outcome and, after a fault, the kind.
finally(s, o, res) ==
  emit([s EXCEPT !.isUpdating = FALSE,
                 !.lockBusy = IF s.op[o].kind = "code" THEN FALSE ELSE @,
                 !.ongoingTasks = @ \ {o},
                 !.op[o] = [NoOp EXCEPT
                              !.pc = "done", !.result = res,
                              !.kind = IF res = "fault" THEN s.op[o].kind
                                       ELSE "none",
                              !.req = s.op[o].req,
                              !.response =
                                 IF s.op[o].req = NoReq THEN "none"
                                 ELSE IF res = "fault" THEN "empty"
                                 ELSE respond(s.op[o].req)]])

\* updateBatteryService and updateLockService: push the values that differ
\* from previousLock.
updateServices(s) ==
  LET has == s.previousLock # NoLock
      s1 == IF has /\ s.previousLock.battery # s.lock.battery
            THEN [s EXCEPT !.reported.battery = s.lock.battery]
            ELSE s
  IN IF has /\ s.previousLock.state # s.lock.state
     THEN [s1 EXCEPT !.reported.current = s.lock.state,
                     !.reported.target = s.lock.state]
     ELSE s1

\* A failed decode that leaves the handler as a rejection.
decodeFailureEscapes(s, o) ==
  [s EXCEPT !.op[o] = [NoOp EXCEPT !.pc = "done", !.result = "raised",
                                   !.kind = "code", !.req = s.op[o].req]]

\* A statement of the access-code try block throws while decoding: the
\* catch, return '', then the finally.
decodeFailure(s, o) == finally(catch(s), o, "fault")

\* Operation o runs the code that follows its "await
\* this.waitForPendingUpdates()", up to its first cloud call.
\*   poll:  isUpdating = true, previousLock = copy of lock (before keeps
\*          it for this poll, as history), getBatteryLevel;
\*          currentTime is read here (fetch = it is more than holdMs after
\*          lastStateChangeTime); the task is pushed on ongoingTasks.
\*   write: isUpdating = true, lock or unlock.
\*   code:  isUpdating = lockBusy = true, parse the TLV; List and Read
\*          answer from the snapshot and fall through to the finally; Add
\*          and Delete call the cloud; a parse failure lands in the catch.
startOp(s, o) ==
  LET s1 == [s EXCEPT !.isUpdating = TRUE] IN
  CASE s.op[o].kind = "poll" ->
         [s1 EXCEPT !.previousLock = s.lock,
                    !.op[o].before = s.lock,
                    !.op[o].pc = "battery",
                    !.op[o].fetch = s.sinceChange > holdMs,
                    !.ongoingTasks = @ \cup {o}]
    [] s.op[o].kind = "write" ->
         [s1 EXCEPT !.op[o].pc = "call"]
    [] s.op[o].kind = "code" ->
         LET s2 == [s1 EXCEPT !.lockBusy = TRUE] IN
         IF s.op[o].cmd = "list" THEN finally(s2, o, "ok")
         ELSE IF s.op[o].cmd = "malformed" THEN decodeFailure(s2, o)
         ELSE [s2 EXCEPT !.op[o].pc = "mutate"]

\* waitForPendingUpdates, then the operation: when isUpdating or a sweep is
\* running, o waits for one of the two signals; otherwise it goes on in the
\* same turn.
waitForPendingUpdates(s, o) ==
  IF s.isUpdating \/ s.periodicDeviceDiscovering
  THEN [s EXCEPT !.op[o].pc = "wait", !.waiters = Append(@, o)]
  ELSE startOp(s, o)

\* A new operation record.
create(s, kind, value, wid, cmd) ==
  [s EXCEPT !.nOps = @ + 1,
            !.op[s.nOps + 1] = [NoOp EXCEPT !.kind = kind, !.value = value,
                                            !.wid = wid, !.cmd = cmd]]

\* A new timer without clearTimeout of the old one.
armDebounceKeep(ts, handle, t) == ts \cup {t}

\* clearTimeout(debounceTimeout) and setTimeout(..., 500).
armDebounce(ts, handle, t) == {x \in ts : x.id # handle} \cup {t}

\* The device and its accessory after startup.  ex: discoverDevices found
\* the lock and foundDevice built the device, which polls; conf: the
\* accessory is in configuredAccessories (restored from the cache by
\* configureAccessory, or registered for the new device); ctx: its
\* context.offline; b: the events the run may hold.
InitCore(ex, conf, ctx, b) ==
  /\ lock = [state |-> 1, battery |-> 80, offline |-> FALSE]
  /\ previousLock = NoLock
  /\ reported = [current |-> 0, target |-> 0, battery |-> 0, config |-> 0]
  /\ isUpdating = FALSE
  /\ lockBusy = FALSE
  /\ pollingInterval = ex
  /\ debounceTimeout = 0
  /\ timers = {}
  /\ sinceChange = holdMs + 1
  /\ op = [o \in Op |-> NoOp]
  /\ nOps = 0
  /\ waiters = << >>
  /\ ready = << >>
  /\ isShuttingDown = FALSE
  /\ shutdownWaits = {}
  /\ periodicDeviceDiscovering = FALSE
  /\ ongoingTasks = {}
  /\ configured = conf
  /\ contextOffline = ctx
  /\ writes = << >>
  /\ sinceWrite = debounceMs
  /\ sweeps = 0
  /\ exists = ex
  /\ lastSweep = "none"
  /\ lastReturn = NoReturn
  /\ budget = b

\* The device, its passcodes left out.
InitDevice(ex, conf, ctx, b) ==
  /\ InitCore(ex, conf, ctx, b)
  /\ cloudCodes = << >>
  /\ nextId = 1
  /\ passCodes = << >>
  /\ lastCmd = NoCmd
  /\ prevCmd = NoCmd
  /\ calls = << >>
  /\ reply = NoReply
  /\ nCmds = 0
  /\ registry = NoRegistry

\* A lock that the cloud listed at startup.
InitDev ==
  InitDevice(TRUE, TRUE, FALSE,
             [ops |-> NumOps, writes |-> MaxWrites, sweeps |-> MaxSweeps])

\* No continuation of a released waiter is queued: microtasks run before
\* any timer, HomeKit request or HTTP answer is handled.
Quiet == ready = << >>

\* A released waiter goes on.  It does not look at isUpdating, lock.offline
\* or isShuttingDown again.
Resume ==
  /\ ready # << >>
  /\ Apply(startOp([Cur EXCEPT !.ready = Tail(@)], Head(ready)))

\* The setInterval callback of startPolling while the device is offline or
\* the platform shuts down.
PollFireStopped ==
  /\ Quiet
  /\ pollingInterval
  /\ lock.offline \/ isShuttingDown
  /\ Apply(stopPolling(IF isUpdating
                       THEN emit([Cur EXCEPT !.isUpdating = FALSE])
                       ELSE Cur))

\* The setInterval callback otherwise: updateState.
PollFire ==
  /\ Quiet
  /\ pollingInterval
  /\ ~(lock.offline \/ isShuttingDown)
  /\ nOps < budget.ops
  /\ Apply(waitForPendingUpdates(create(Cur, "poll", 0, 0, "none"), nOps + 1))

\* getBatteryLevel comes back to poll o.
BatteryResponse(o, ok, b) ==
  /\ Quiet
  /\ op[o].pc = "battery"
  /\ IF ~ok
     THEN Apply(finally(catch(Cur), o, "fault"))
     ELSE LET s1 == [Cur EXCEPT !.lock.battery = b] IN
          IF op[o].fetch
          THEN Apply([s1 EXCEPT !.op[o].pc = "state", !.op[o].battery = b])
          ELSE Apply(finally(updateServices(s1), o, "ok"))

\* getLockState comes back to poll o.
StateResponse(o, ok, v) ==
  /\ Quiet
  /\ op[o].pc = "state"
  /\ IF ~ok
     THEN Apply(finally(catch(Cur), o, "fault"))
     ELSE Apply(finally(updateServices([Cur EXCEPT !.lock.state = v]), o, "ok"))

\* handleLockTargetStateOnSet: restart the debounce timer.
Write(v) ==
  /\ Quiet
  /\ exists
  /\ Len(writes) < budget.writes
  /\ LET id == Len(writes) + 1
         t == [id |-> id, value |-> v, remaining |-> debounceMs]
     IN Apply([Cur EXCEPT
                 !.timers = armDebounce(timers, debounceTimeout, t),
                 !.debounceTimeout = id,
                 !.writes = Append(@, v),
                 !.sinceWrite = 0])

\* The debounce timer fires while the device is offline or the platform
\* shuts down: the write is dropped.
DebounceFireDropped(t) ==
  /\ Quiet
  /\ t \in timers
  /\ t.remaining = 0
  /\ lock.offline \/ isShuttingDown
  /\ Apply([Cur EXCEPT !.timers = @ \ {t}])

\* The debounce timer fires otherwise.
DebounceFire(t) ==
  /\ Quiet
  /\ t \in timers
  /\ t.remaining = 0
  /\ ~(lock.offline \/ isShuttingDown)
  /\ nOps < budget.ops
  /\ Apply(waitForPendingUpdates(
             create([Cur EXCEPT !.timers = @ \ {t}], "write", t.value, t.id,
                    "none"),
             nOps + 1))

\* lock / unlock comes back to write o.  On success lastStateChangeTime is
\* now, so a poll that read currentTime earlier will find the difference
\* negative and skip getLockState.
WriteResponse(o, ok) ==
  /\ Quiet
  /\ op[o].pc = "call"
  /\ IF ~ok
     THEN Apply(finally(catch(Cur), o, "fault"))
     ELSE Apply(finally(
            [Cur EXCEPT !.lock.state = op[o].value,
                        !.reported.target = op[o].value,
                        !.reported.current = op[o].value,
                        !.sinceChange = 0,
                        !.op = [x \in Op |->
                                  IF op[x].pc = "battery"
                                  THEN [op[x] EXCEPT !.fetch = FALSE]
                                  ELSE op[x]]],
            o, "ok"))

\* handleAccessCodeControlPointOnSet on a device that is online.
AccessCode(cmd) ==
  /\ Quiet
  /\ exists
  /\ ~(lock.offline \/ isShuttingDown)
  /\ nOps < budget.ops
  /\ Apply(waitForPendingUpdates(create(Cur, "code", 0, 0, cmd), nOps + 1))

\* addPasscode / deletePasscode, then getPasscodes, come back to o.
CodeResponse(o, ok) ==
  /\ Quiet
  /\ op[o].pc \in {"mutate", "refetch"}
  /\ IF ~ok
     THEN Apply(finally(catch(Cur), o, "fault"))
     ELSE IF op[o].pc = "mutate"
     THEN Apply([Cur EXCEPT !.op[o].pc = "refetch"])
     ELSE Apply(finally(Cur, o, "ok"))

\* handleAccessCodeControlPointOnSet for the request req.
AccessCodeRequest(req) ==
  /\ Quiet
  /\ exists
  /\ ~(lock.offline \/ isShuttingDown)
  /\ nOps < budget.ops
  /\ LET s1 == create(Cur, "code", 0, 0, decode(req))
         s2 == [s1 EXCEPT !.op[nOps + 1].req = req]
     IN Apply(waitForPendingUpdates(s2, nOps + 1))

\* handleAccessCodeControlPointOnSet on a device that is offline, or while
\* the platform shuts down: return ''.
AccessCodeRefused ==
  /\ Quiet
  /\ exists
  /\ lock.offline \/ isShuttingDown
  /\ Apply([Cur EXCEPT !.lastReturn = [by |-> "AccessCodeControlPoint.set",
                                       value |-> Str(""),
                                       refused |-> TRUE]])

\* Characteristics with an onGet handler.
Chars == {"LockCurrentState", "LockTargetState", "BatteryLevel",
          "ConfigurationState", "AccessCodeControlPoint"}
ControlPoints == {"AccessCodeControlPoint"}

getDefaultValue(c) ==
  CASE c = "LockCurrentState" -> Num(1)       \* SECURED
    [] c = "LockTargetState" -> Num(1)        \* SECURED
    [] c = "BatteryLevel" -> Num(100)
    [] c = "ConfigurationState" -> Num(1)
    [] OTHER -> Str("")

\* handleConfigurationStateOnGet: updateValue(lockBusy ? 0 : 1), then the
\* characteristic's value.
handleConfigurationStateOnGet(s) == IF s.lockBusy THEN 0 ELSE 1

getInitialValue(s, c) ==
  CASE c = "LockCurrentState" -> s.lock.state
    [] c = "LockTargetState" -> s.lock.state
    [] c = "BatteryLevel" -> s.lock.battery
    [] c = "ConfigurationState" -> handleConfigurationStateOnGet(s)

\* service.getCharacteristic(c).value and .updateValue(v).
characteristicValue(s, c) ==
  CASE c = "LockCurrentState" -> s.reported.current
    [] c = "LockTargetState" -> s.reported.target
    [] c = "BatteryLevel" -> s.reported.battery
    [] c = "ConfigurationState" -> s.reported.config

updateValue(s, c, v) ==
  CASE c = "LockCurrentState" -> [s EXCEPT !.reported.current = v]
    [] c = "LockTargetState" -> [s EXCEPT !.reported.target = v]
    [] c = "BatteryLevel" -> [s EXCEPT !.reported.battery = v]
    [] c = "ConfigurationState" -> [s EXCEPT !.reported.config = v]

\* A get that answers from the characteristic whatever the device's state.
handleOnGetStored(s, c) ==
  LET off == s.lock.offline \/ s.isShuttingDown IN
  [s EXCEPT !.lastReturn =
     [by |-> c, refused |-> off,
      value |-> IF c \in ControlPoints THEN getDefaultValue(c)
                ELSE Num(characteristicValue(s, c))]]

\* handleOnGet: the default while offline or shutting down; otherwise the
\* characteristic's value, which is first set from the snapshot when it is
\* falsy; the default for a control point.
handleOnGet(s, c) ==
  IF s.lock.offline \/ s.isShuttingDown
  THEN [s EXCEPT !.lastReturn = [by |-> c, value |-> getDefaultValue(c),
                                 refused |-> TRUE]]
  ELSE IF c \in ControlPoints
  THEN [s EXCEPT !.lastReturn = [by |-> c, value |-> getDefaultValue(c),
                                 refused |-> FALSE]]
  ELSE IF characteristicValue(s, c) = 0
  THEN LET v == getInitialValue(s, c) IN
       [updateValue(s, c, v) EXCEPT
          !.lastReturn = [by |-> c, value |-> Num(v), refused |-> FALSE]]
  ELSE [s EXCEPT !.lastReturn = [by |-> c, value |-> Num(characteristicValue(s, c)),
                                 refused |-> FALSE]]

\* HomeKit reads characteristic c.
Get(c) ==
  /\ Quiet
  /\ exists
  /\ Apply(handleOnGet(Cur, c))

\* handleNFCAccessControlPointOnSet: return ''.
NfcSet ==
  /\ Quiet
  /\ exists
  /\ Apply([Cur EXCEPT !.lastReturn = [by |-> "NFCAccessControlPoint.set",
                                       value |-> Str(""),
                                       refused |-> FALSE]])

\* identify: a log line.
Identify ==
  /\ Quiet
  /\ exists
  /\ Apply([Cur EXCEPT !.lastReturn = [by |-> "identify", value |-> Void,
                                       refused |-> FALSE]])

\* The 'shutdown' handler: the flag, then Promise.all(ongoingTasks).
Shutdown ==
  /\ Quiet
  /\ ~isShuttingDown
  /\ Apply([Cur EXCEPT !.isShuttingDown = TRUE,
                       !.shutdownWaits = ongoingTasks])

\* periodicDeviceDiscovery up to its first cloud call.
DiscoveryStart ==
  /\ Quiet
  /\ ~periodicDeviceDiscovering
  /\ sweeps < budget.sweeps
  /\ Apply([Cur EXCEPT !.periodicDeviceDiscovering = TRUE, !.sweeps = @ + 1])

\* foundDevice for a lock that homekitDevicesById does not hold: the
\* constructor of TTLockHomeKitDevice takes the accessory from
\* configuredAccessories, or registers a new one, and starts polling.
foundDevice(s, device) ==
  startPolling([s EXCEPT !.exists = TRUE, !.configured = TRUE,
                         !.lock = device])

\* A sweep that replaces the record and never restarts the polling.
sweepFoundNoRestart(s, device) ==
  IF s.exists /\ ~s.isUpdating
  THEN [s EXCEPT !.contextOffline = FALSE, !.lock = device]
  ELSE [s EXCEPT !.contextOffline = FALSE]

\* updateAccessoryDeviceStatus and updateOrCreateHomeKitDevice for the
\* device found by the sweep: a device that homekitDevicesById lacks is
\* created; the record of one it holds is replaced unless isUpdating.
sweepFound(s, device) ==
  LET s1 == [s EXCEPT !.contextOffline = FALSE] IN
  IF ~s.exists THEN foundDevice(s1, device)
  ELSE IF s.isUpdating THEN s1
  ELSE IF s.lock.offline
       THEN startPolling([s1 EXCEPT !.lock = device])
       ELSE [s1 EXCEPT !.lock = device]

\* An absent accessory that is marked offline and never removed.
sweepAbsentKeep(s, past) == [s EXCEPT !.contextOffline = TRUE]

\* updateAccessoryStatus and handleOfflineAccessory for an accessory the
\* sweep did not find.  homekitDevicesById is asked for context.deviceId,
\* which nothing sets, so the branch on context.offline decides: past the
\* offline interval the accessory is unregistered.
sweepAbsent(s, past) ==
  [s EXCEPT !.contextOffline = TRUE,
            !.configured = IF past THEN FALSE ELSE @]

\* The sweep's cloud calls are over.  kind: "fault" (a call threw),
\* "found", "within" / "past" (absent, by time since last seen).  Only
\* accessories in configuredAccessories are looked at.  The finally clears
\* the flag and emits 'periodicDeviceDiscoveryComplete'.
DiscoveryEnd(kind, device) ==
  /\ Quiet
  /\ periodicDeviceDiscovering
  /\ LET s1 == IF kind = "fault" \/ ~configured THEN Cur
               ELSE IF kind = "found" THEN sweepFound(Cur, device)
               ELSE sweepAbsent(Cur, kind = "past")
     IN Apply(emit([s1 EXCEPT !.periodicDeviceDiscovering = FALSE,
                              !.lastSweep = kind]))

\* Time passes: dt ms, not beyond the next debounce deadline.  Time is
\* followed in short steps while a debounce timer is armed and in long
\* steps otherwise.
Tick(dt) ==
  /\ Quiet
  /\ \A t \in timers : t.remaining >= dt
  /\ (timers = {}) = (dt = holdMs)
  /\ Apply([Cur EXCEPT
       !.timers = {[t EXCEPT !.remaining = @ - dt] : t \in timers},
       !.sinceChange = Min(@ + dt, holdMs + 1),
       !.sinceWrite = Min(@ + dt, debounceMs)])

NextDev ==
  \/ Resume
  \/ PollFireStopped
  \/ PollFire
  \/ \E o \in Op, ok \in BOOLEAN, b \in Batteries : BatteryResponse(o, ok, b)
  \/ \E o \in Op, ok \in BOOLEAN, v \in LockStates : StateResponse(o, ok, v)
  \/ \E v \in LockStates : Write(v)
  \/ \E t \in timers : DebounceFireDropped(t)
  \/ \E t \in timers : DebounceFire(t)
  \/ \E o \in Op, ok \in BOOLEAN : WriteResponse(o, ok)
  \/ \E cmd \in Commands : AccessCode(cmd)
  \/ \E o \in Op, ok \in BOOLEAN : CodeResponse(o, ok)
  \/ Shutdown
  \/ DiscoveryStart
  \/ \E kind \in {"fault", "found", "within", "past"},
        device \in [state : LockStates, battery : Batteries, offline : {FALSE}] :
        DiscoveryEnd(kind, device)
  \/ \E dt \in TimeSteps : Tick(dt)

(***************************************************************************)
(* Specifications.                                                         *)
(***************************************************************************)

Init == InitApi /\ InitDev

\* The cloud client under any number of callers.
SpecApi == Init /\ [][NextApi]_vars

\* The device uses the client of src/api/ttlockApi.ts.
InitDev1 == Init /\ impl = "direct"

\* The coordinator of one device.
SpecDev == InitDev1 /\ [][NextDev]_vars

\* The coordinator of a device whose user writes twice: the second write
\* may fall inside the debounce window of the first.
InitDebounce ==
  /\ InitApi
  /\ impl = "direct"
  /\ InitDevice(TRUE, TRUE, FALSE,
                [ops |-> DebounceOps, writes |-> DebounceWrites,
                 sweeps |-> MaxSweeps])

SpecDebounce == InitDebounce /\ [][NextDev]_vars

\* A cloud call of the device or of the sweep returns or fails, or a
\* continuation that was queued runs.
CloudReturns ==
  \/ Resume
  \/ \E o \in Op, ok \in BOOLEAN, b \in Batteries : BatteryResponse(o, ok, b)
  \/ \E o \in Op, ok \in BOOLEAN, v \in LockStates : StateResponse(o, ok, v)
  \/ \E o \in Op, ok \in BOOLEAN : WriteResponse(o, ok)
  \/ \E o \in Op, ok \in BOOLEAN : CodeResponse(o, ok)
  \/ \E kind \in {"fault", "found", "within", "past"},
        device \in [state : LockStates, battery : Batteries, offline : {FALSE}] :
        DiscoveryEnd(kind, device)

\* The coordinator of one device when no cloud call stays out for ever.
InitFair ==
  /\ InitApi
  /\ impl = "direct"
  /\ InitDevice(TRUE, TRUE, FALSE,
                [ops |-> FairOps, writes |-> MaxWrites, sweeps |-> MaxSweeps])

SpecDevFair == InitFair /\ [][NextDev]_vars /\ WF_vars(CloudReturns)

\* The accessory registry: a lock listed at startup, an accessory restored
\* from the cache whose lock the cloud did not list at startup (marked
\* offline or not), or a lock that is in neither.
InitReg ==
  /\ InitApi
  /\ impl = "direct"
  /\ \E ex, conf, ctx \in BOOLEAN :
        /\ ex => conf /\ ~ctx
        /\ ~conf => ~ctx
        /\ InitDevice(ex, conf, ctx,
                      [ops |-> RegOps, writes |-> 0, sweeps |-> RegSweeps])

\* The polls of a device and the periodic discovery sweeps.
NextReg ==
  \/ Resume
  \/ PollFireStopped
  \/ PollFire
  \/ \E o \in Op, ok \in BOOLEAN, b \in Batteries : BatteryResponse(o, ok, b)
  \/ \E o \in Op, ok \in BOOLEAN, v \in LockStates : StateResponse(o, ok, v)
  \/ Shutdown
  \/ DiscoveryStart
  \/ \E kind \in {"fault", "found", "within", "past"},
        device \in [state : LockStates, battery : Batteries, offline : {FALSE}] :
        DiscoveryEnd(kind, device)

SpecReg == InitReg /\ [][NextReg]_vars

\* The polls of a lock listed at startup, with two battery levels, next to
\* the sweeps.
BatteriesPoll == {15, 80}

InitPoll ==
  /\ InitApi
  /\ impl = "direct"
  /\ InitDevice(TRUE, TRUE, FALSE,
                [ops |-> PollOps, writes |-> 0, sweeps |-> PollSweeps])

NextPoll ==
  \/ Resume
  \/ PollFireStopped
  \/ PollFire
  \/ \E o \in Op, ok \in BOOLEAN, b \in BatteriesPoll :
        BatteryResponse(o, ok, b)
  \/ \E o \in Op, ok \in BOOLEAN, v \in LockStates : StateResponse(o, ok, v)
  \/ Shutdown
  \/ DiscoveryStart
  \/ \E kind \in {"fault", "found"},
        device \in [state : LockStates, battery : BatteriesPoll,
                    offline : {FALSE}] :
        DiscoveryEnd(kind, device)

SpecPoll == InitPoll /\ [][NextPoll]_vars

\* The requests of the accessory framework to a lock listed at startup:
\* gets, writes, access-code and NFC requests, identify, next to the polls.
InitHk ==
  /\ InitApi
  /\ impl = "direct"
  /\ InitDevice(TRUE, TRUE, FALSE,
                [ops |-> HkOps, writes |-> HkWrites, sweeps |-> 0])

NextHk ==
  \/ Resume
  \/ PollFireStopped
  \/ PollFire
  \/ \E o \in Op, ok \in BOOLEAN, b \in Batteries : BatteryResponse(o, ok, b)
  \/ \E o \in Op, ok \in BOOLEAN, v \in LockStates : StateResponse(o, ok, v)
  \/ \E v \in LockStates : Write(v)
  \/ \E t \in timers : DebounceFireDropped(t)
  \/ \E t \in timers : DebounceFire(t)
  \/ \E o \in Op, ok \in BOOLEAN : WriteResponse(o, ok)
  \/ \E cmd \in Commands : AccessCode(cmd)
  \/ AccessCodeRefused
  \/ \E o \in Op, ok \in BOOLEAN : CodeResponse(o, ok)
  \/ \E c \in Chars : Get(c)
  \/ NfcSet
  \/ Identify
  \/ Shutdown
  \/ \E dt \in TimeSteps : Tick(dt)

SpecHk == InitHk /\ [][NextHk]_vars

\* The access-code requests of the accessory framework, next to the polls.
InitCodec ==
  /\ InitApi
  /\ impl = "direct"
  /\ InitDevice(TRUE, TRUE, FALSE,
                [ops |-> CodecOps, writes |-> 0, sweeps |-> 0])

NextCodec ==
  \/ Resume
  \/ PollFireStopped
  \/ PollFire
  \/ \E o \in Op, ok \in BOOLEAN, b \in Batteries : BatteryResponse(o, ok, b)
  \/ \E o \in Op, ok \in BOOLEAN, v \in LockStates : StateResponse(o, ok, v)
  \/ \E req \in Requests : AccessCodeRequest(req)
  \/ \E o \in Op, ok \in BOOLEAN : CodeResponse(o, ok)
  \/ Shutdown

SpecCodec == InitCodec /\ [][NextCodec]_vars

(***************************************************************************)
(* The passcodes: TTLockApi.getPasscodes / addPasscode / deletePasscode    *)
(* and what handleAccessCodeControlPointOnSet builds from lock.passCodes.  *)
(* Here one command runs from its start to its return in one step; every   *)
(* cloud call of it can fail.                                              *)
(***************************************************************************)

Codes == {"111", "222"}
SlotBytes == {0, 1, 10, 16}
Sub == [identifier : SlotBytes \cup {-1}, code : Codes \cup {""}]

\* String(pc.index).padStart(2, '0'): the decimal digits of an index below
\* 100, most significant first.
padStart2(index) == <<index \div 10, index % 10>>

\* TlvFactory.primitiveTlv('01', digits): the digits are read as hex, which
\* gives one byte.
primitiveTlv(digits) == 16 * digits[1] + digits[2]

\* The identifier field of a response record.
encodeIdentifier(index) == primitiveTlv(padStart2(index))

\* parseInt(value.toString('hex'), 16) of a one-byte identifier: the slot
\* index that Read and Delete take from a request.
decodeIdentifier(byte) == ((byte \div 16) * 16) + (byte % 16)

\* The fields of a response record: identifier (tag 01), access code
\* (tag 02), flags and status (tags 03 and 04, both '00').
NoFields == [identifier |-> -1, accessCode |-> "", flags |-> FALSE]
Fields(item) == [identifier |-> encodeIdentifier(item.index),
                 accessCode |-> item.passcode, flags |-> TRUE]

\* A fetch that numbers the passcodes by their server identifier instead of
\* their position.
getPasscodesById(cloud) ==
  [i \in 1 .. Len(cloud) |->
     [id |-> cloud[i].id, index |-> cloud[i].id - 1,
      passcode |-> cloud[i].code]]

\* TTLockApi.getPasscodes: the cloud's list, each item with its position.
getPasscodes(cloud) ==
  [i \in 1 .. Len(cloud) |->
     [id |-> cloud[i].id, index |-> i - 1, passcode |-> cloud[i].code]]

\* lock.passCodes[i] is defined.
Holds(pcs, i) == i + 1 \in DOMAIN pcs

\* addReq[0].value.toString(): the first sub-field as text, whatever its
\* tag; the text of an identifier byte is no access code.
firstField(sub) == IF sub.identifier # -1 THEN "byte" ELSE sub.code

Call(name, id, code) == [name |-> name, id |-> id, code |-> code]

\* A List whose records depend on how many commands came before.
listRecordsCounted(pcs) ==
  [i \in 1 .. Len(pcs) |->
     [identifier |-> encodeIdentifier(pcs[i].index) + nCmds,
      accessCode |-> pcs[i].passcode, flags |-> TRUE]]

\* case 1, List: one record per passcode of the snapshot.
listRecords(pcs) == [i \in 1 .. Len(pcs) |-> Fields(pcs[i])]

\* case 2, Read: identifier, accessCode, flags and status are declared
\* before the loop and assigned only when the slot holds a passcode; a
\* record is appended for every requested record.  Nothing is appended
\* when the snapshot is empty.
RECURSIVE readLoop(_, _, _)
readLoop(pcs, subs, carried) ==
  IF subs = << >> THEN << >>
  ELSE LET sub == Head(subs)
           i == decodeIdentifier(sub.identifier)
           f == IF sub.identifier # -1 /\ Holds(pcs, i)
                THEN Fields(pcs[i + 1])
                ELSE carried
       IN <<f>> \o readLoop(pcs, Tail(subs), f)

readRecords(pcs, subs) ==
  IF Len(pcs) > 0 THEN readLoop(pcs, subs, NoFields) ELSE << >>

\* case 3, Add: for every record with a sub-field, addPasscode of its first
\* sub-field, getPasscodes, and a response record for the passcode that
\* has the new keyboardPwdId.  faultAt: the number of the cloud call that
\* throws (0: none); front: the cloud lists the new passcode first.
RECURSIVE addLoop(_, _, _, _)
addLoop(st, subs, faultAt, front) ==
  IF subs = << >> \/ st.fault THEN st
  ELSE
    LET sub == Head(subs) IN
    IF sub.identifier = -1 /\ sub.code = ""
    THEN addLoop(st, Tail(subs), faultAt, front)
    ELSE
      LET c1 == Append(st.calls, Call("addPasscode", 0, firstField(sub)))
          entry == [id |-> st.nextId, code |-> firstField(sub)]
          cloud1 == IF front THEN <<entry>> \o st.cloud
                    ELSE Append(st.cloud, entry)
          c2 == Append(c1, Call("getPasscodes", 0, ""))
          pcs1 == getPasscodes(cloud1)
          added == pcs1[CHOOSE i \in DOMAIN pcs1 : pcs1[i].id = entry.id]
      IN IF faultAt = Len(c1)
         THEN [st EXCEPT !.calls = c1, !.fault = TRUE]
         ELSE IF faultAt = Len(c2)
         THEN [st EXCEPT !.calls = c2, !.fault = TRUE, !.cloud = cloud1,
                         !.nextId = @ + 1]
         ELSE addLoop([st EXCEPT !.calls = c2, !.cloud = cloud1,
                                 !.nextId = @ + 1, !.pcs = pcs1,
                                 !.records = Append(@, Fields(added))],
                      Tail(subs), faultAt, front)

\* case 5, Delete: record 1 names the slot; deletePasscode of the
\* passcode the snapshot holds there, getPasscodes, and a response record
\* with the fields of the passcode as it was.
deletePasscodeAt(st, subs, faultAt) ==
  LET sub == subs[1]
      i == decodeIdentifier(sub.identifier)
  IN
  IF subs = << >> THEN [st EXCEPT !.fault = TRUE]
  ELSE IF sub.identifier = -1 \/ ~Holds(st.pcs, i) THEN st
  ELSE
    LET target == st.pcs[i + 1]
        c1 == Append(st.calls, Call("deletePasscode", target.id, ""))
        cloud1 == SelectSeq(st.cloud, LAMBDA e : e.id # target.id)
        c2 == Append(c1, Call("getPasscodes", 0, ""))
    IN IF faultAt = Len(c1)
       THEN [st EXCEPT !.calls = c1, !.fault = TRUE]
       ELSE IF faultAt = Len(c2)
       THEN [st EXCEPT !.calls = c2, !.fault = TRUE, !.cloud = cloud1]
       ELSE [st EXCEPT !.calls = c2, !.cloud = cloud1,
                       !.pcs = getPasscodes(cloud1),
                       !.records = <<Fields(target)>>]

\* The try block of handleAccessCodeControlPointOnSet for cmd.
handleAccessCode(cmd, faultAt, front) ==
  LET st == [cloud |-> cloudCodes, nextId |-> nextId, pcs |-> passCodes,
             calls |-> << >>, records |-> << >>, fault |-> FALSE]
  IN CASE cmd.operation = 1 -> [st EXCEPT !.records = listRecords(st.pcs)]
       [] cmd.operation = 2 ->
            [st EXCEPT !.records = readRecords(st.pcs, cmd.subs)]
       [] cmd.operation = 3 -> addLoop(st, cmd.subs, faultAt, front)
       [] cmd.operation = 5 -> deletePasscodeAt(st, cmd.subs, faultAt)

\* An access-code command on a device that is online; the catch block
\* returns '', sets the device offline and stops the polling.
Command(cmd, faultAt, front) ==
  /\ ~(lock.offline \/ isShuttingDown)
  /\ nCmds < MaxCmds
  /\ LET st == handleAccessCode(cmd, faultAt, front) IN
       /\ cloudCodes' = st.cloud
       /\ nextId' = st.nextId
       /\ passCodes' = st.pcs
       /\ calls' = st.calls
       /\ lastCmd' = cmd
       /\ prevCmd' = lastCmd
       /\ reply' = IF st.fault THEN [NoReply EXCEPT !.kind = "empty"]
                   ELSE [kind |-> "tlv", operation |-> cmd.operation,
                         records |-> st.records]
       /\ lock' = [lock EXCEPT !.offline = @ \/ st.fault]
       /\ pollingInterval' = (pollingInterval /\ ~st.fault)
  /\ nCmds' = nCmds + 1
  /\ UNCHANGED <<apiVars, restVars>>

ListCmd ==
  /\ exists
  /\ Command([operation |-> 1, subs |-> << >>], 0, FALSE)

ReadCmd(subs) ==
  /\ exists
  /\ Command([operation |-> 2, subs |-> subs], 0, FALSE)

AddCmd(subs, faultAt, front) ==
  /\ exists
  /\ Command([operation |-> 3, subs |-> subs], faultAt, front)

DeleteCmd(subs, faultAt) ==
  /\ exists
  /\ Command([operation |-> 5, subs |-> subs], faultAt, FALSE)

\* A discovery sweep finds the lock: the device record, and with it the
\* passcodes, is replaced by what getDetailedLocks fetched, and the polling
\* of an offline device is started again.
SweepCodes ==
  /\ exists
  /\ ~isShuttingDown
  /\ passCodes' = getPasscodes(cloudCodes)
  /\ lock' = [lock EXCEPT !.offline = FALSE]
  /\ pollingInterval' = TRUE
  /\ UNCHANGED <<apiVars, restVars, cloudCodes, nextId, lastCmd, prevCmd,
                 calls, reply, nCmds>>

ReadSubs == {<<[identifier |-> b, code |-> ""]>> : b \in SlotBytes}
              \cup {<<[identifier |-> a, code |-> ""],
                      [identifier |-> b, code |-> ""]>> : a, b \in SlotBytes}
AddSubs == {<< >>} \cup {<<sub>> : sub \in [identifier : {-1, 1}, code : Codes]}
DeleteSubs == {<<[identifier |-> b, code |-> ""]>> : b \in SlotBytes}

\* getDetailedLocks at startup: the snapshot is what the cloud lists.
InitCodes ==
  /\ InitApi
  /\ impl = "direct"
  /\ InitCore(TRUE, TRUE, FALSE, [ops |-> 0, writes |-> 0, sweeps |-> 0])
  /\ \E n \in 0 .. MaxCodes :
        /\ cloudCodes = [i \in 1 .. n |->
                           [id |-> i,
                            code |-> IF i % 2 = 1 THEN "111" ELSE "222"]]
        /\ nextId = n + 1
  /\ passCodes = getPasscodes(cloudCodes)
  /\ lastCmd = NoCmd
  /\ prevCmd = NoCmd
  /\ calls = << >>
  /\ reply = NoReply
  /\ nCmds = 0
  /\ registry = NoRegistry

NextCodes ==
  \/ ListCmd
  \/ \E subs \in ReadSubs : ReadCmd(subs)
  \/ \E subs \in AddSubs, faultAt \in 0 .. 2, front \in BOOLEAN :
        AddCmd(subs, faultAt, front)
  \/ \E subs \in DeleteSubs, faultAt \in 0 .. 2 : DeleteCmd(subs, faultAt)
  \/ SweepCodes

SpecCodes == InitCodes /\ [][NextCodes]_vars

(***************************************************************************)
(* Properties of the cloud client.                                         *)
(***************************************************************************)

\* r is inside the retry loop of its gated call.
Executing(r) == pc[r] \in {"http", "backoff", "mutexWait", "refreshing"}

\* r's gated call is over: it neither waits in the queue nor executes.
Ended(r) == pc[r] \in {"done", "thrown"}

InFlight == {r \in Req : pc[r] = "http"}

\* C1: at most one HTTP call of the gated request path is in flight at any
\* instant, however the callers interleave.
C1_AtMostOneCallInFlight == Cardinality(InFlight) <= 1

\* C2: callers whose 401s overlap (the later ones arrive while a refresh is
\* still running, so they queue up on tokenMutex) make one refresh call
\* between them, not one each.
C2_OneRefreshPerBurst == burst <= 1

\* C5: a 401 uses up none of the retry budget: whatever the number of 401s
\* a call has received, its j-th backoff lasts 2^(j-1) seconds, so its
\* backoff delays start at 1 s and all 3 retries remain.
C5_UnauthorizedKeepsBudget ==
  \A r \in Req : \A j \in 1 .. Len(delays[r]) : delays[r][j] = 2 ^ (j - 1)

C7_AppErrorFailsAtOnce ==
  \A r \in Req :
    lastResp[r] = "apperr" => pc[r] = "done" /\ outcome[r] = "RequestFailed"

\* C8: a request that has left the queue and is no longer executing has
\* resolved or rejected its caller's pending result.
C8_EveryCallerSettled ==
  \A r \in Req : Ended(r) => outcome[r] # "pending"

\* C9: a failing request never stops the queue.  The worker takes the
\* requests in enqueue order and loses none; while requests wait, the
\* worker is running one; and the result of a call changes only in a step
\* of that call itself, so a failure reaches no other caller.
C9_QueueInv ==
  /\ IsPrefix(startOrder, enqOrder)
  /\ requestQueue = SubSeq(enqOrder, Len(startOrder) + 1, Len(enqOrder))
  /\ requestQueue # << >> =>
       isProcessingQueue /\ \E r \in Req : Executing(r)
  /\ \A r \in Req : pc[r] = "queued" => outcome[r] = "pending"

C9_QueueStep ==
  \A r \in Req : outcome'[r] # outcome[r] => Executing(r) \/ pc[r] = "idle"

Running(o) == op[o].pc \in {"battery", "state", "call", "mutate", "refetch"}

\* C3: for one device, at most one of its operations (poll refresh,
\* debounced write, access-code command) is between its start and its
\* completion at any instant.
C3_OneOperationAtATime == Cardinality({o \in Op : Running(o)}) <= 1

C4_TimerInv ==
  /\ Cardinality(timers) <= 1
  /\ \A t \in timers : /\ t.id = Len(writes)
                       /\ t.id = debounceTimeout
                       /\ t.value = writes[t.id]
                       /\ t.remaining = debounceMs - sinceWrite
  /\ \A o \in Op : (op[o].kind = "write" /\ op[o].pc \in {"wait", "call"})
                     => op[o].value = writes[op[o].wid]

C4_FireStep ==
  \A o \in Op : (op[o].pc = "none" /\ op'[o].kind = "write")
     => /\ op'[o].wid = Len(writes)
        /\ op'[o].value = writes[Len(writes)]
        /\ sinceWrite = debounceMs
        /\ writes' = writes

\* C4: a user write followed by another write less than 500 ms later never
\* becomes a lock or unlock call; the write operation that is started is
\* that of the latest write, 500 ms after it, with that write's value: at
\* most one debounce timer is armed, it belongs to the latest write and
\* runs out 500 ms after it.
C4_DebounceAppliesLastWrite == [](C4_TimerInv) /\ [][C4_FireStep]_vars

\* The first write was replaced by the second within the window, and only
\* the second one reached the cloud.
C4_Witness ==
  /\ Len(writes) = 2
  /\ nOps = 1
  /\ op[1].kind = "write" /\ op[1].pc = "call" /\ op[1].wid = 2
  /\ writes[1] # writes[2]
  /\ op[1].value = writes[2]

C10_FaultStep ==
  \A o \in Op :
    (op[o].kind \in {"poll", "write"} /\ Running(o) /\ op'[o].result = "fault")
      => lock'.offline /\ ~pollingInterval'

\* C10: a cloud fault during a poll refresh or during a debounced write
\* sets the device offline and stops its polling timer: in the state after
\* the fault the device is offline and no polling timer is set, and no
\* polling timer is set for as long as the device stays offline.
C10_FaultSetsOfflineAndStopsPolling ==
  [](lock.offline => ~pollingInterval) /\ [][C10_FaultStep]_vars

\* A poll and a write have each ended in a fault on a device that had its
\* timer running; it is offline now and the timer is gone.
C10_Witness ==
  /\ \E o \in Op : op[o].kind \in {"poll", "write"} /\ op[o].result = "fault"
  /\ lock.offline
  /\ ~pollingInterval

C11_StartStep ==
  \A o \in Op : (~Running(o) /\ Running(o)')
                  => ~(lock.offline \/ isShuttingDown)

\* C11: no poll, write or access-code operation starts its cloud call at an
\* instant when the device is offline or the shutdown signal has been
\* received, an operation that waited for another one included.
C11_NoStartWhenOfflineOrShutdown == [][C11_StartStep]_vars

(***************************************************************************)
(* Properties of the accessory registry.                                   *)
(***************************************************************************)

\* C12: once the accessory of a device has been removed (absent from the
\* sweeps for longer than the offline interval), the polling timer of the
\* device is stopped, so that no later poll cycle calls the cloud for it.
C12_RemovedDeviceStopsPolling == ~configured => ~pollingInterval

\* A sweep has just ended, and this is how it went.
SweepEnds(kind) ==
  periodicDeviceDiscovering /\ ~periodicDeviceDiscovering' /\ lastSweep' = kind

C13_RemoveStep == (SweepEnds("past") /\ configured) => ~configured'

C13_TerminalStep == (exists /\ ~configured) => ~configured'

\* C13: the sweep that finds an accessory absent for longer than the
\* offline interval drops it from the configured set, and a dropped
\* accessory of a device stays dropped in every later step, also in a sweep
\* in which the cloud lists the lock again.
C13_RemovedIsTerminal == [][C13_RemoveStep /\ C13_TerminalStep]_vars

\* The accessory of a device was removed, and a later sweep found the lock.
C13_Witness == exists /\ ~configured /\ lastSweep = "found"

\* A sweep finds the lock of a device that is offline.
OfflineFound == SweepEnds("found") /\ configured /\ exists /\ lock.offline

C14_RecoverStep ==
  (OfflineFound /\ ~isShuttingDown)
    => IF isUpdating
       THEN lock' = lock /\ pollingInterval' = pollingInterval
       ELSE ~lock'.offline /\ pollingInterval'

\* C14: an offline device found again by a sweep is online with its polling
\* timer set when that sweep ends, unless the shutdown signal has been
\* received; a sweep that ends while isUpdating is set leaves the device as
\* it is, for a later sweep, and isUpdating is set only while an operation
\* of the device is in flight.
C14_FoundAgainResumes ==
  [](isUpdating => \E o \in Op : Running(o)) /\ [][C14_RecoverStep]_vars

\* An operation of the device failed, and a sweep has brought it back.
C14_Witness ==
  /\ lastSweep = "found"
  /\ ~lock.offline /\ pollingInterval
  /\ \E o \in Op : op[o].result = "fault"

\* C14 as stated: an offline device found again with no operation in
\* flight is online with its polling timer set when the sweep ends.
C14_FoundAgainResumesAlways ==
  [][(OfflineFound /\ ~isUpdating) => (~lock'.offline /\ pollingInterval')]_vars

C15_AddStep ==
  (SweepEnds("found") /\ ~exists /\ ~configured)
    => (exists' /\ configured' /\ (pollingInterval' \/ isShuttingDown))

\* C15: a periodic sweep in which the cloud lists a lock that was neither
\* listed at startup nor restored from the cache adds it: when the sweep
\* ends its device exists, its accessory is registered and it polls.
C15_NewLockIsAdded == [][C15_AddStep]_vars

(***************************************************************************)
(* Properties of the polls.                                                *)
(***************************************************************************)

\* Poll o starts, receives the battery level and goes on to fetch the lock
\* state, or receives the lock state and stores it.
PollStarts(o) == op'[o].kind = "poll" /\ ~Running(o) /\ Running(o)'
PollFetchesState(o) == op[o].pc = "battery" /\ op'[o].pc = "state"
PollStoresState(o) ==
  op[o].pc = "state" /\ op'[o].pc = "done" /\ op'[o].result = "ok"

C16_PollStep ==
  \A o \in Op :
    /\ PollStarts(o) => op'[o].pc = "battery"
    /\ PollFetchesState(o) => sinceChange > holdMs
    /\ PollStoresState(o) => sinceChange > holdMs

\* C16: every poll fetches the battery level; a poll fetches the lock state
\* only when more than 5 s have passed since the last applied user write,
\* and it stores a fetched lock state only then: it never replaces the
\* value of a user write that was applied within the last 5 s.
C16_PollKeepsRecentWrite == [][C16_PollStep]_vars

\* Poll o ends its try block without a fault: updateBatteryService and
\* updateLockService have run.
PollCompletes(o) ==
  /\ op[o].kind = "poll"
  /\ Running(o)
  /\ op'[o].pc = "done"
  /\ op'[o].result = "ok"

C17_PollStep ==
  \A o \in Op :
    PollCompletes(o) => /\ reported'.current = lock'.state
                        /\ reported'.battery = lock'.battery

\* C17: after every poll that completes without a fault, the lock state
\* and the battery level reported to the accessory framework equal the
\* snapshot's, also when a sweep replaced the snapshot between two polls.
C17_PollReportsSnapshot == [][C17_PollStep]_vars

\* Poll o ends, with or without a fault.
PollEnds(o) ==
  /\ op[o].kind = "poll"
  /\ Running(o)
  /\ op'[o].pc = "done"

\* The battery level that getBatteryLevel gave to the ending poll o.
FetchedBattery(o) ==
  IF op[o].pc = "state" THEN op[o].battery ELSE lock'.battery

C18_NotifyStep ==
  \A o \in Op :
    PollEnds(o) =>
      /\ reported'.battery # reported.battery
           => /\ op'[o].result = "ok"
              /\ FetchedBattery(o) # op[o].before.battery
      /\ (reported'.current # reported.current
            \/ reported'.target # reported.target)
           => /\ op'[o].result = "ok"
              /\ lock'.state # op[o].before.state
      /\ (FetchedBattery(o) = op[o].before.battery
            /\ lock'.state = op[o].before.state)
           => reported' = reported

\* C18: a poll changes the reported battery level only if the battery it
\* fetched differs from the snapshot's battery at its start, and the
\* reported lock state only if the snapshot's lock state differs from the
\* one at its start; a poll that changes neither reports nothing.
C18_NotifiesOnlyChanges == [][C18_NotifyStep]_vars

\* An exception that crosses into the accessory framework.
Raised == [tag |-> "raised", n |-> 0, s |-> ""]

\* C19: no entry point raises into the accessory framework: a get, the
\* NFC set, identify and a refused access-code set return a value; every
\* write and access-code operation ends in its try block or in its catch,
\* whatever the cloud calls came back with; and a get while the device is
\* offline or the platform shuts down returns the default.
C19_NoFaultEscapes ==
  /\ lastReturn.value # Raised
  /\ lastReturn.by \in Chars => lastReturn.value.tag \in {"number", "string"}
  /\ (lastReturn.by \in Chars /\ lastReturn.refused)
       => lastReturn.value = getDefaultValue(lastReturn.by)
  /\ \A o \in Op : op[o].pc = "done" => op[o].result \in {"ok", "fault"}

\* A cloud call has failed, the device is offline, and a get of the
\* battery level was answered with the default.
C19_Witness ==
  /\ lock.offline
  /\ \E o \in Op : op[o].result = "fault"
  /\ lastReturn = [by |-> "BatteryLevel", value |-> Num(100), refused |-> TRUE]

\* Requests whose try block throws while decoding: an unparseable TLV, an
\* empty buffer, a Delete without record 1, an Add or Delete whose record 1
\* does not parse.
Undecodable(req) ==
  \/ req.tlv \in {"unparseable", "empty"}
  \/ req.code = 5 /\ req.sub = "none"
  \/ req.code \in {3, 5} /\ req.sub = "unparseable"

\* Requests that parse but name nothing to add or delete: an Add without
\* record 1, an Add or Delete whose record 1 holds no sub-field.
Incomplete(req) ==
  /\ req.tlv = "records"
  /\ \/ req.code = 3 /\ req.sub \in {"none", "empty"}
     \/ req.code = 5 /\ req.sub = "empty"

\* A finished access-code request.
Answered(o) == op[o].pc = "done" /\ op[o].req # NoReq

\* C20: an access-code request that cannot be decoded is answered with ''
\* and does not raise; one that parses but lacks the record or the
\* sub-fields of an Add or Delete is answered with the operation header
\* alone, and does not raise either.
C20_MalformedIsAnswered ==
  \A o \in Op :
    Answered(o) =>
      /\ op[o].result # "raised"
      /\ Undecodable(op[o].req) => op[o].response = "empty"
      /\ Incomplete(op[o].req) => op[o].response = "header"

\* An Add without record 1 was answered with its header, and a Delete
\* without record 1 with ''.
C20_Witness ==
  \E o, p \in Op :
    /\ Answered(o)
    /\ op[o].req = [tlv |-> "records", code |-> 3, sub |-> "none"]
    /\ op[o].response = "header"
    /\ Answered(p)
    /\ op[p].req = [tlv |-> "records", code |-> 5, sub |-> "none"]
    /\ op[p].response = "empty"

\* C20 as stated: every such request is answered with '' and does not
\* raise.
C20_MalformedReturnsEmpty ==
  \A o \in Op :
    (Answered(o) /\ (Undecodable(op[o].req) \/ Incomplete(op[o].req)))
      => op[o].result # "raised" /\ op[o].response = "empty"

\* The access-code request o is answered in this step.
AnswersNow(o) == ~Answered(o) /\ Answered(o)'

C21_DecodeStep ==
  \A o \in Op :
    (AnswersNow(o) /\ Undecodable(op'[o].req))
      => /\ lock'.offline = lock.offline
         /\ pollingInterval' = pollingInterval

\* C21: a decode failure of an access-code command leaves the device's
\* offline flag and its polling timer as they were.
C21_DecodeFailureIsAbsorbed == [][C21_DecodeStep]_vars

\* An Add or Delete of the device is between its first cloud call and its
\* finally block.
CodeExecuting(o) == op[o].kind = "code" /\ op[o].pc \in {"mutate", "refetch"}

\* C22: lockBusy is true exactly while an Add or Delete access-code command
\* of the device is executing, also when a second one overlaps it.
C22_BusyWhileExecuting == lockBusy = (\E o \in Op : CodeExecuting(o))

C23_ReadStep ==
  (/\ lastReturn' # lastReturn
   /\ lastReturn'.by = "ConfigurationState"
   /\ ~lastReturn'.refused)
    => lastReturn'.value = Num(IF lockBusy THEN 0 ELSE 1)

\* C23: a get of ConfigurationState on an online device returns 0 while
\* lockBusy is true and 1 while it is false, whatever earlier gets returned.
C23_ConfigurationStateFollowsBusy == [][C23_ReadStep]_vars

(***************************************************************************)
(* Properties of the access-code commands.                                 *)
(***************************************************************************)

\* This step handles an access-code command with the given operation.
Handles(operation) == nCmds' = nCmds + 1 /\ lastCmd'.operation = operation

C24_ReadStep ==
  Handles(2) =>
    /\ reply'.kind = "tlv"
    /\ Len(reply'.records) = Len(lastCmd'.subs)
    /\ \A k \in DOMAIN lastCmd'.subs :
         decodeIdentifier(lastCmd'.subs[k].identifier) >= Len(passCodes)
           => reply'.records[k] = NoFields

\* C24: a Read answers every requested slot index that is not below the
\* snapshot length with a sub-record without fields, and raises no error,
\* whatever the same command requested before and also when the snapshot
\* is empty.
C24_ReadOutOfRangeIsEmpty == [][C24_ReadStep]_vars


\* C25: decoding a List response with the identifier decoding of Read and
\* Delete gives, record by record and in snapshot order, the slot index and
\* the code of each passcode of the snapshot, whatever its length.
C25_ListStep ==
  Handles(1) =>
    /\ reply'.kind = "tlv"
    /\ Len(reply'.records) = Len(passCodes)
    /\ \A k \in DOMAIN passCodes :
         /\ decodeIdentifier(reply'.records[k].identifier) = passCodes[k].index
         /\ reply'.records[k].accessCode = passCodes[k].passcode
C25_ListRoundTrip == [][C25_ListStep]_vars


\* C26: an Add/Change command whose record names an existing slot changes
\* that passcode: changePasscode is called for the server identifier at
\* that slot, addPasscode is not called and the number of passcodes stays;
\* a record without a slot calls addPasscode with its code.
Called(name) == {k \in DOMAIN calls' : calls'[k].name = name}
C26_AddStep ==
  (Handles(3) /\ reply'.kind = "tlv") =>
    \A k \in DOMAIN lastCmd'.subs :
      LET sub == lastCmd'.subs[k]
          i == decodeIdentifier(sub.identifier)
      IN IF sub.identifier # -1 /\ Holds(passCodes, i)
         THEN /\ \E c \in Called("changePasscode") :
                   calls'[c].id = passCodes[i + 1].id
              /\ Called("addPasscode") = {}
              /\ Len(cloudCodes') = Len(cloudCodes)
         ELSE sub.identifier = -1 =>
                \E c \in Called("addPasscode") : calls'[c].code = sub.code
C26_ChangeKeepsCount == [][C26_AddStep]_vars


\* C27: an Add that the cloud accepts, on a snapshot of n passcodes, leaves
\* a snapshot of n + 1 passcodes equal to a fresh fetch, and the response
\* has operation 3 and one record whose identifier decodes to the slot of
\* the new passcode in that snapshot.
AddAccepted ==
  /\ Handles(3)
  /\ reply'.kind = "tlv"
  /\ Len(lastCmd'.subs) = 1
  /\ lastCmd'.subs[1].identifier = -1
C27_AddStep ==
  AddAccepted =>
    /\ Len(passCodes') = Len(passCodes) + 1
    /\ passCodes' = getPasscodes(cloudCodes')
    /\ reply'.operation = 3
    /\ Len(reply'.records) = 1
    /\ \E k \in DOMAIN passCodes' :
         /\ \A j \in DOMAIN passCodes : passCodes[j].id # passCodes'[k].id
         /\ passCodes'[k].passcode = lastCmd'.subs[1].code
         /\ decodeIdentifier(reply'.records[1].identifier) = passCodes'[k].index
         /\ reply'.records[1].accessCode = lastCmd'.subs[1].code
C27_AddRefetchesAndAnswers == [][C27_AddStep]_vars


\* C28: a Delete for a slot i inside the snapshot calls deletePasscode with
\* the server identifier of the passcode at position i, then replaces the
\* snapshot by a fresh fetch without that passcode, and the response record
\* carries the slot index and the code the passcode had before.
DeleteInside ==
  /\ Handles(5)
  /\ reply'.kind = "tlv"
  /\ lastCmd'.subs # << >>
  /\ lastCmd'.subs[1].identifier # -1
  /\ Holds(passCodes, decodeIdentifier(lastCmd'.subs[1].identifier))
C28_DeleteStep ==
  DeleteInside =>
    LET i == decodeIdentifier(lastCmd'.subs[1].identifier)
        old == passCodes[i + 1]
    IN /\ calls' = <<Call("deletePasscode", old.id, ""),
                     Call("getPasscodes", 0, "")>>
       /\ passCodes' = getPasscodes(cloudCodes')
       /\ \A k \in DOMAIN passCodes' : passCodes'[k].id # old.id
       /\ Len(reply'.records) = 1
       /\ decodeIdentifier(reply'.records[1].identifier) = i
       /\ reply'.records[1].accessCode = old.passcode
C28_DeleteAnswersOldRecord == [][C28_DeleteStep]_vars


\* C29: in every reachable state the passcode at position i of the device's
\* snapshot has slot index i, counted from zero: after the first fetch,
\* after every Add and Delete, and after a sweep replaced the device record.
C29_IndexIsPosition ==
  \A i \in DOMAIN passCodes : passCodes[i].index = i - 1

\* A Delete removed a passcode that was not the last one, so the passcodes
\* behind it moved up.
C29_Witness ==
  /\ lastCmd.operation = 5
  /\ reply.kind = "tlv"
  /\ Len(reply.records) = 1
  /\ decodeIdentifier(lastCmd.subs[1].identifier) < Len(passCodes)
  /\ \E k \in DOMAIN calls : calls[k].name = "getPasscodes"


\* C30: authenticate stores the access and the refresh token when the
\* answer holds both, and a gated call made then is sent with the stored
\* token, without a new authentication or refresh; when the answer lacks a
\* token or the transport fails, authenticate raises and the stored pair is
\* unchanged; a gated call made with no access token fails to its caller
\* and sends no HTTP call.
AuthenticateEnds == ~authTried /\ authTried'
GatedCall(r) == pc[r] = "idle" /\ pc'[r] # "idle"
C30_AuthStep ==
  AuthenticateEnds =>
    IF authReturn'.resp = "both"
    THEN /\ ~authReturn'.raised
         /\ accessToken' # 0
         /\ refreshToken' # 0
    ELSE /\ authReturn'.raised
         /\ accessToken' = accessToken
         /\ refreshToken' = refreshToken
C30_CallStep ==
  \A r \in Req :
    GatedCall(r) =>
      IF accessToken = 0
      THEN /\ pc'[r] = "done"
           /\ outcome'[r] = "NotAuthenticated"
           /\ attempt'[r] = 0
      ELSE /\ pc'[r] \in {"http", "queued"}
           /\ pc'[r] = "http" => bearer'[r] = accessToken
           /\ refreshCalls' = refreshCalls
           /\ <<authReturn', accessToken', refreshToken'>>
                = <<authReturn, accessToken, refreshToken>>
C30_AuthenticateStoresOrRaises == [][C30_AuthStep /\ C30_CallStep]_vars


\* C31: a refresh that fails (no refresh token, transport error, or an
\* answer lacking a token) raises an error to the caller that asked for it,
\* and from then on no gated call is sent to the cloud: a call made after
\* the failure ends without an HTTP attempt.
RefreshFailedFor(r) ==
  /\ Ended(r)
  /\ n401[r] > 0
  /\ outcome[r] \in {"RefreshFailed", "pending"}
RefreshFails(r) == ~RefreshFailedFor(r) /\ RefreshFailedFor(r)'
C31_FailStep ==
  \A r \in Req : RefreshFails(r) => outcome'[r] = "RefreshFailed"
C31_CallStep ==
  \A r \in Req :
    (GatedCall(r) /\ \E q \in Req : RefreshFailedFor(q)) => pc'[r] # "http"
C31_RefreshFailureIsTerminal == [][C31_FailStep /\ C31_CallStep]_vars


\* C32: at most one token-refresh HTTP call is in flight in every reachable
\* state, however many gated calls were answered 401 and ask for a
\* refresh; the call in flight is the one of the holder of tokenMutex.
Refreshing == {r \in Req : pc[r] = "refreshing"}
C32_OneRefreshInFlight ==
  /\ Cardinality(Refreshing) <= 1
  /\ \A r \in Refreshing : tokenMutex = r

\* Two calls were answered 401: one has its refresh call in flight, the
\* other waits for tokenMutex.
C32_Witness ==
  \E r, q \in Req :
    /\ pc[r] = "refreshing"
    /\ pc[q] = "mutexWait"
    /\ n401[q] > 0


\* C33: the coordinator never deadlocks.  Whenever an operation waits in
\* waitForPendingUpdates, an operation of the device or a sweep is under
\* way whose end will give the signal, and, every cloud call returning or
\* failing, the operations that wait are all released.
Waiting(o) == op[o].pc = "wait"
C33_WakerExists ==
  waiters # << >> => (periodicDeviceDiscovering \/ \E o \in Op : Running(o))
C33_NoDeadlock ==
  /\ [](C33_WakerExists)
  /\ (\E o \in Op : Waiting(o)) ~> (\A o \in Op : ~Waiting(o))

\* Two operations were waiting and a signal has released them together.
C33_Witness == Len(ready) = 2 /\ waiters = << >>


\* C34: the shutdown handler completes only after every operation that was
\* in flight when the shutdown signal arrived has finished: the tasks it
\* awaits include every poll, debounced write and access-code command that
\* is between its start and its completion at that instant.
ShutdownArrives == ~isShuttingDown /\ isShuttingDown'
C34_ShutdownStep ==
  ShutdownArrives => \A o \in Op : Running(o) => o \in shutdownWaits'
C34_ShutdownAwaitsAllInFlight == [][C34_ShutdownStep]_vars


\* C35: a List command leaves the passcode snapshot as it is and calls the
\* cloud for nothing, and a List that follows a List, the snapshot not
\* having changed in between, returns the same response.
C35_ListStep ==
  Handles(1) =>
    /\ passCodes' = passCodes
    /\ cloudCodes' = cloudCodes
    /\ calls' = << >>
    /\ (lastCmd.operation = 1 /\ reply.kind = "tlv") => reply' = reply
SweepReplaces ==
  /\ SweepEnds("found")
  /\ configured
  /\ exists
  /\ ~isUpdating
C36_ReplaceStep == SweepReplaces => \A o \in Op : ~Running(o)
C36_OneWriterAtATime == [][C36_ReplaceStep]_vars


\* C37: every HTTP attempt of a gated call, the retry after a token refresh
\* included, carries in its request parameters the same access token as in
\* its bearer header (the token the session held when the attempt was sent),
\* never the token the refresh replaced.
C37_ParamsCarryCurrentToken ==
  \A r \in Req : pc[r] = "http" => paramToken[r] = bearer[r]


(***************************************************************************)
(* The cloud client under the assumption that every HTTP call returns and  *)
(* every backoff timer fires.                                              *)
(***************************************************************************)

\* An HTTP attempt or a refresh call is answered, or a backoff timer fires.
ApiReturns ==
  \/ \E r \in Req, resp \in HttpResp : HttpResponse(r, resp)
  \/ \E r \in Req : BackoffExpire(r)
  \/ \E r \in Req, resp \in TokenResp : RefreshResponse(r, resp)

SpecApiFair == Init /\ [][NextApi]_vars /\ WF_vars(ApiReturns)

\* The caller of r has its answer: the call resolved or rejected.
Settled(r) == Ended(r) /\ outcome[r] # "pending"

\* A call makes at most 4 HTTP attempts, 401 and busy retries counted
\* together, and triggers at most 4 refreshes.
C39_Bounded ==
  \A r \in Req : /\ pc[r] = "http" => attempt[r] + 1 <= maxRetries + 1
                 /\ n401[r] <= maxRetries + 1

\* A call answered 401 on all 4 attempts, each followed by a refresh that
\* succeeded, ends with 'Max retries reached'.
C39_All401 ==
  \A r \in Req :
    (Ended(r) /\ n401[r] = maxRetries + 1
              /\ outcome[r] \notin {"RefreshFailed", "pending"})
      => outcome[r] = "MaxRetries"

\* C39: provided each HTTP call returns, every gated call terminates: it
\* makes at most 4 HTTP attempts in total (retries after 401 and after busy
\* counted together), triggers at most 4 token refreshes, a call answered 401
\* on all 4 attempts ends with 'Max retries reached', and every call that was
\* made ends with an answer for its caller.
C39_GatedCallTerminates ==
  /\ [](C39_Bounded /\ C39_All401)
  /\ \A r \in Req : (pc[r] # "idle") ~> Settled(r)


\* Write operation o gets the successful answer of its lock / unlock call.
WriteSucceeds(o) ==
  /\ op[o].kind = "write" /\ op[o].pc = "call"
  /\ op'[o].pc = "done" /\ op'[o].result = "ok"

\* No user write is left to apply and none was lost: no debounce timer is
\* armed, no write operation waits or runs, no operation has failed (so the
\* device never went offline) and the platform is not shutting down (so no
\* timer was dropped when it fired).
WritesSettled ==
  /\ timers = {}
  /\ \A o \in Op : op[o].kind # "write" /\ op[o].result # "fault"
  /\ ~isShuttingDown

C38_WriteStep ==
  \A o \in Op :
    (WriteSucceeds(o) /\ WritesSettled')
      => /\ lock'.state = writes[Len(writes)]
         /\ reported'.current = writes[Len(writes)]
         /\ reported'.target = writes[Len(writes)]

\* C38: when the last outstanding user write of a device completes, all
\* lock / unlock calls having succeeded, the device's lock state and the
\* reported current and target states are the value of the last write
\* received, also when several debounced writes were released together.
C38_LastWriteWins == [][C38_WriteStep]_vars


(***************************************************************************)
(* Startup of the platform: Homebridge hands the cached accessories to     *)
(* configureAccessory, then 'didFinishLaunching' authenticates, discovers  *)
(* the locks and unregisters the accessories set aside as offline.         *)
(***************************************************************************)

MaxLocks == 2
Locks == 1 .. MaxLocks

\* hap.uuid.generate(lock.id): one UUID per lock id.
generate(id) == 100 + id
UUIDs == {generate(l) : l \in Locks}

\* context.lastSeen against now: absent, less than offlineInterval ago,
\* exactly offlineInterval ago, longer ago; "now" once it is set to now.
\* context.offline: undefined, true or false.
Contexts == [lastSeen : {"none", "recent", "edge", "old"},
             offline : {"undefined", "true", "false"}]

\* configureAccessory(platformAccessory) for the cached accessory u.
configureAccessory(s, u) ==
  LET c == s.cache[u]
      c1 == IF c.lastSeen = "none" /\ c.offline # "true"
            THEN [lastSeen |-> "now", offline |-> "false"] ELSE c
  IN IF c1.lastSeen = "old" /\ c1.offline = "true"
     THEN [s EXCEPT !.restored = @ \cup {u},
                    !.cache[u] = c1,
                    !.configuredAccessories = @ \ {u},
                    !.offlineAccessories = @ \cup {u}]
     ELSE [s EXCEPT !.restored = @ \cup {u},
                    !.cache[u] = IF c1.lastSeen # "none" /\ c1.offline = "false"
                                 THEN [c1 EXCEPT !.lastSeen = "now"] ELSE c1,
                    !.configuredAccessories = @ \cup {u}]

\* initalizeAccessory of the device built for lock l: an accessory that
\* configuredAccessories holds is reused, otherwise a new one with the same
\* UUID is put there and registered with Homebridge.
initalizeAccessory(s, l) ==
  LET u == generate(l) IN
  IF u \in s.configuredAccessories THEN s
  ELSE [s EXCEPT !.configuredAccessories = @ \cup {u},
                 !.bridge = @ \cup {u}]

\* The for loop of discoverDevices over the locks from lo upwards that the
\* cloud listed: foundDevice builds a device for each.  Registering a UUID
\* that Homebridge already holds is left to Homebridge: with throws the
\* exception ends the loop before the device is stored.
RECURSIVE foundDevices(_, _, _, _)
foundDevices(s, lo, listed, throws) ==
  IF lo > MaxLocks THEN s
  ELSE IF lo \notin listed \/ lo \in s.homekitDevicesById
  THEN foundDevices(s, lo + 1, listed, throws)
  ELSE LET u == generate(lo)
           s1 == initalizeAccessory(s, lo)
       IN IF throws /\ u \notin s.configuredAccessories /\ u \in s.bridge
          THEN s1
          ELSE foundDevices([s1 EXCEPT !.homekitDevicesById = @ \cup {lo}],
                            lo + 1, listed, throws)

\* The device variables stay as they are.
StartFrame ==
  UNCHANGED <<apiVars, lock, pollingInterval, passVars, previousLock,
              reported, isUpdating, lockBusy, debounceTimeout, timers,
              sinceChange, op, nOps, waiters, ready, isShuttingDown,
              shutdownWaits, periodicDeviceDiscovering, ongoingTasks,
              configured, contextOffline, writes, sinceWrite, sweeps, exists,
              lastSweep, lastReturn, budget>>

\* Homebridge restores one cached accessory.
ConfigureAccessory(u) ==
  /\ registry.phase = "restore"
  /\ u \in DOMAIN registry.cache
  /\ u \notin registry.restored
  /\ registry' = configureAccessory(registry, u)
  /\ StartFrame

\* 'didFinishLaunching', after the whole cache was restored: up to the
\* first await of createAndAuthenticateApi.
DidFinishLaunching ==
  /\ registry.phase = "restore"
  /\ registry.restored = DOMAIN registry.cache
  /\ registry' = [registry EXCEPT !.phase = "discovering"]
  /\ StartFrame

\* discoverDevices after its cloud calls: they failed (nothing is found) or
\* listed some locks.
DiscoverDevices(ok, listed, throws) ==
  /\ registry.phase = "discovering"
  /\ registry' = [(IF ok THEN foundDevices(registry, 1, listed, throws)
                   ELSE registry)
                  EXCEPT !.phase = "discovered"]
  /\ StartFrame

\* The rest of the 'didFinishLaunching' handler: the offline accessories are
\* unregistered and their map is cleared.
CleanUp ==
  /\ registry.phase = "discovered"
  /\ registry' = [registry EXCEPT
                    !.phase = "running",
                    !.unregistered = registry.offlineAccessories,
                    !.bridge = @ \ registry.offlineAccessories,
                    !.offlineAccessories = {}]
  /\ StartFrame

\* Any cache: for each lock an accessory may have been cached in an earlier
\* run, with any context.
InitStart ==
  /\ InitApi
  /\ impl = "direct"
  /\ InitCore(FALSE, FALSE, FALSE, [ops |-> 0, writes |-> 0, sweeps |-> 0])
  /\ cloudCodes = << >>
  /\ nextId = 1
  /\ passCodes = << >>
  /\ lastCmd = NoCmd
  /\ prevCmd = NoCmd
  /\ calls = << >>
  /\ reply = NoReply
  /\ nCmds = 0
  /\ \E cached \in SUBSET UUIDs : \E cache \in [cached -> Contexts] :
        registry = [NoRegistry EXCEPT !.phase = "restore", !.cache = cache,
                                      !.bridge = cached]

NextStart ==
  \/ \E u \in UUIDs : ConfigureAccessory(u)
  \/ DidFinishLaunching
  \/ \E ok \in BOOLEAN, listed \in SUBSET Locks, throws \in BOOLEAN :
        DiscoverDevices(ok, listed, throws)
  \/ CleanUp

SpecStart == InitStart /\ [][NextStart]_vars

\* The UUIDs of the devices that discovery built.
Discovered == {generate(l) : l \in registry.homekitDevicesById}

C40_Disjoint ==
  registry.phase = "discovered"
    => registry.configuredAccessories \cap registry.offlineAccessories = {}

C40_CleanStep ==
  (registry.phase = "discovered" /\ registry'.phase = "running")
    => /\ registry'.unregistered \cap Discovered = {}
       /\ Discovered \subseteq registry'.bridge

\* C40: when the startup clean-up unregisters the cached accessories that
\* were set aside as offline, no UUID is both in configuredAccessories and
\* in offlineAccessories, so the accessory of a lock that was discovered at
\* startup is not unregistered and stays registered.
C40_DiscoveredStaysRegistered == [](C40_Disjoint) /\ [][C40_CleanStep]_vars

=============================================================================
